---------------------------- MODULE Spec2Model ----------------------------
(***************************************************************************)
(* Model of the Quickwit leaf search collector                             *)
(* (quickwit-search/src/collector.rs): the per-segment top-K collector,    *)
(* its heap item order, the sort-key encoder and the leaf merger.          *)
(*                                                                         *)
(* TLC integers are 32 bits wide, so the machine words of the source are   *)
(* scaled down: an f32 bit pattern is 8 bits wide (1 sign bit, 7 magnitude *)
(* bits) and a u64 is 16 bits wide.  Every operation of the source on      *)
(* these words (subtraction from u64::MAX, the sign mask of f32_to_u64)    *)
(* is carried out on the scaled words in the same way.                     *)
(***************************************************************************)
EXTENDS Integers, Sequences, FiniteSets, TLC

(***************************************************************************)
(* Bounds of the model.                                                    *)
(***************************************************************************)
\* doc ids of a segment are 0..MaxDocId
MaxDocId == 2
\* number of collect calls made on one segment collector
MaxCalls == 3
\* start_offset of a request ranges over 0..MaxOffset
MaxOffset == 2
\* max_hits of a request ranges over 0..MaxHits
MaxHits == 2
\* number of fruits handed to one merge_fruits call
MaxFruits == 2

(***************************************************************************)
(* Program constants (scaled words).                                       *)
(***************************************************************************)
\* u64::MAX, on 16 bits
U64_MAX == 65535
\* 0x80000000, the sign bit of an f32 bit pattern, on 8 bits
SIGN_BIT == 128
\* 0xFFFFFFFF, the mask `(value_u32 as i32 >> 31) as u32` of a negative f32
U32_MAX == 255

(***************************************************************************)
(* Option<T>: None is the empty sequence, Some(x) the one-element one.     *)
(***************************************************************************)
None == <<>>
Some(x) == <<x>>
IsSome(o) == o # <<>>
Unwrap(o) == o[1]

Min(a, b) == IF a <= b THEN a ELSE b
Max(a, b) == IF a >= b THEN a ELSE b

DocIds == 0..MaxDocId
SplitIds == {"split_1", "split_2"}
SegmentOrds == 0..1

\* f32 scores by bit pattern: 1.0 and -1.0 are 56 and 184; 0.0 is 0
\* (sign | 4 exponent bits | 3 mantissa bits, bias 7)
Scores == {56, 184}
\* the score tantivy passes when requires_scoring() is false
NoScore == 0

(***************************************************************************)
(* Sort-key encoder.                                                       *)
(***************************************************************************)
\* f32_to_u64 without the sign-dependent mask: the sign bit alone is flipped
f32_to_u64_flips_sign_only(value_u32) ==
    IF value_u32 >= SIGN_BIT
    THEN value_u32 - SIGN_BIT
    ELSE value_u32 + SIGN_BIT

\* fn f32_to_u64(value: f32) -> u64, on the bit pattern of value:
\* mask = all ones when the sign bit is set, else 0; mask |= sign bit;
\* value ^ mask.
f32_to_u64(value_u32) ==
    IF value_u32 >= SIGN_BIT
    THEN U32_MAX - value_u32       \* x ^ 0xFFFFFFFF
    ELSE value_u32 + SIGN_BIT      \* x ^ 0x80000000, sign bit clear

\* every f32 bit pattern
F32Bits == 0..U32_MAX

\* the magnitude bits of a pattern: 4 exponent bits, 3 mantissa bits
f32_magnitude_bits(value_u32) == value_u32 % SIGN_BIT
f32_is_sign_negative(value_u32) == value_u32 >= SIGN_BIT

\* f32::is_nan: exponent all ones and a mantissa that is not 0
f32_is_nan(value_u32) == f32_magnitude_bits(value_u32) > SIGN_BIT - 8

\* the pattern of -0.0: the sign bit alone
f32_is_negative_zero(value_u32) == value_u32 = SIGN_BIT

RECURSIVE pow2(_)
pow2(n) == IF n = 0 THEN 1 ELSE 2 * pow2(n - 1)

\* the real number an f32 that is not NaN stands for, in units of the
\* smallest subnormal: mantissa for exponent 0, (8 + mantissa) * 2^(e - 1)
\* for a normal number; infinity (exponent all ones, mantissa 0) comes out
\* above every finite number
f32_value(value_u32) ==
    LET exponent == f32_magnitude_bits(value_u32) \div 8
        mantissa == f32_magnitude_bits(value_u32) % 8
        magnitude == IF exponent = 0 THEN mantissa
                     ELSE (8 + mantissa) * pow2(exponent - 1)
    IN  IF f32_is_sign_negative(value_u32) THEN 0 - magnitude ELSE magnitude

\* `a < b` on f32 (PartialOrd): false when either is NaN
f32_lt(a, b) ==
    /\ ~f32_is_nan(a)
    /\ ~f32_is_nan(b)
    /\ f32_value(a) < f32_value(b)

\* Column<u64>::first(doc_id): the column is a function doc_id -> Option<u64>
first(sort_column, doc_id) == sort_column[doc_id]

\* Column::build_empty_column(max_doc): no value for any doc
build_empty_column == [d \in DocIds |-> None]

\* compute_sorting_field with the field value as the key under Asc too
compute_sorting_field_asc_unmapped(sort_by, doc_id, score) ==
    CASE sort_by.kind = "FastField" ->
           LET field_val == first(sort_by.sort_column, doc_id)
           IN  IF IsSome(field_val) THEN Unwrap(field_val) ELSE 0
      [] sort_by.kind = "DocId" -> doc_id
      [] sort_by.kind = "Score" ->
           LET u64_score == f32_to_u64(score)
           IN  IF sort_by.order = "Desc"
               THEN u64_score
               ELSE U64_MAX - u64_score

\* compute_sorting_field with a missing value taken as the value 0
compute_sorting_field_missing_as_zero(sort_by, doc_id, score) ==
    CASE sort_by.kind = "FastField" ->
           LET field_val == first(sort_by.sort_column, doc_id)
               val == IF IsSome(field_val) THEN Unwrap(field_val) ELSE 0
           IN  IF sort_by.order = "Desc" THEN val ELSE U64_MAX - val
      [] sort_by.kind = "DocId" -> doc_id
      [] sort_by.kind = "Score" ->
           LET u64_score == f32_to_u64(score)
           IN  IF sort_by.order = "Desc"
               THEN u64_score
               ELSE U64_MAX - u64_score

\* SortingFieldComputer::compute_sorting_field
compute_sorting_field(sort_by, doc_id, score) ==
    CASE sort_by.kind = "FastField" ->
           LET field_val == first(sort_by.sort_column, doc_id)
           IN  IF IsSome(field_val)
               THEN IF sort_by.order = "Desc"
                    THEN Unwrap(field_val)
                    ELSE U64_MAX - Unwrap(field_val)
               ELSE 0
      [] sort_by.kind = "DocId" -> doc_id
      [] sort_by.kind = "Score" ->
           LET u64_score == f32_to_u64(score)
           IN  IF sort_by.order = "Desc"
               THEN u64_score
               ELSE U64_MAX - u64_score

(***************************************************************************)
(* Heap item and its order.                                                *)
(***************************************************************************)
PartialHitHeapItem(sorting_field_value, doc_id) ==
    [sorting_field_value |-> sorting_field_value, doc_id |-> doc_id]

\* u64::partial_cmp / u32::partial_cmp, never None on integers
int_cmp(x, y) == IF x < y THEN "Less" ELSE IF x > y THEN "Greater" ELSE "Equal"

\* Ordering::then_with
then_with(first_ord, second_ord) ==
    IF first_ord = "Equal" THEN second_ord ELSE first_ord

\* cmp with the doc ids compared the other way round
cmp_doc_id_reversed(self, other) ==
    then_with(int_cmp(other.sorting_field_value, self.sorting_field_value),
              int_cmp(other.doc_id, self.doc_id))

\* cmp with the keys compared in their natural order
cmp_key_natural(self, other) ==
    then_with(int_cmp(self.sorting_field_value, other.sorting_field_value),
              int_cmp(self.doc_id, other.doc_id))

\* cmp without the tie-break on the doc id
cmp_without_doc_id(self, other) ==
    int_cmp(other.sorting_field_value, self.sorting_field_value)

\* impl Ord for PartialHitHeapItem: the key reversed, then the doc id
cmp(self, other) ==
    LET by_sorting_field ==
            int_cmp(other.sorting_field_value, self.sorting_field_value)
        lazy_order_by_doc_id == int_cmp(self.doc_id, other.doc_id)
    IN  then_with(by_sorting_field, lazy_order_by_doc_id)

\* <, <=, >= derived from cmp (PartialOrd)
lt(a, b) == cmp(a, b) = "Less"
le(a, b) == cmp(a, b) # "Greater"
ge(a, b) == cmp(a, b) # "Less"

\* impl PartialEq for PartialHitHeapItem
eq(self, other) == cmp(self, other) = "Equal"

(***************************************************************************)
(* std::collections::BinaryHeap over a vector.  Positions are those of     *)
(* the source (from 0); the vector data is a TLA+ sequence (from 1).       *)
(***************************************************************************)
at(data, pos) == data[pos + 1]
put(data, pos, item) == [data EXCEPT ![pos + 1] = item]

\* BinaryHeap::sift_up(start, pos): the hole moves up while its element is
\* greater than the parent
RECURSIVE sift_up_hole(_, _, _, _)
sift_up_hole(data, element, start, pos) ==
    IF pos > start
    THEN LET parent == (pos - 1) \div 2
         IN  IF le(element, at(data, parent))
             THEN put(data, pos, element)
             ELSE sift_up_hole(put(data, pos, at(data, parent)),
                               element, start, parent)
    ELSE put(data, pos, element)

sift_up(data, start, pos) == sift_up_hole(data, at(data, pos), start, pos)

\* BinaryHeap::sift_down_range(pos, end)
RECURSIVE sift_down_hole(_, _, _, _)
sift_down_hole(data, element, pos, end) ==
    LET child == 2 * pos + 1
    IN  IF child <= Max(end - 2, 0)
        THEN LET greater == IF le(at(data, child), at(data, child + 1))
                            THEN child + 1 ELSE child
             IN  IF ge(element, at(data, greater))
                 THEN put(data, pos, element)
                 ELSE sift_down_hole(put(data, pos, at(data, greater)),
                                     element, greater, end)
        ELSE IF child = end - 1 /\ lt(element, at(data, child))
             THEN put(put(data, pos, at(data, child)), child, element)
             ELSE put(data, pos, element)

sift_down_range(data, pos, end) ==
    sift_down_hole(data, at(data, pos), pos, end)

\* push leaving the new item at the end of the vector: no sift_up
push_without_sift_up(data, item) == Append(data, item)

\* BinaryHeap::push
push(data, item) == sift_up(Append(data, item), 0, Len(data))

\* BinaryHeap::peek
peek(data) == IF Len(data) = 0 THEN None ELSE Some(at(data, 0))

\* BinaryHeap::peek_mut, the head overwritten and the guard dropped:
\* sift_down(0)
peek_mut_set(data, item) == sift_down_range(put(data, 0, item), 0, Len(data))

\* into_vec in place of into_sorted_vec: the heap's vector as it lies
into_vec_unsorted(data) == data

\* BinaryHeap::into_sorted_vec: heap sort, ascending in cmp
RECURSIVE into_sorted_loop(_, _)
into_sorted_loop(data, end) ==
    IF end > 1
    THEN LET e == end - 1
             swapped == put(put(data, 0, at(data, e)), e, at(data, 0))
         IN  into_sorted_loop(sift_down_range(swapped, 0, e), e)
    ELSE data

into_sorted_vec(data) == into_sorted_loop(data, Len(data))

(***************************************************************************)
(* State.                                                                  *)
(***************************************************************************)
VARIABLES
    collector,  \* the QuickwitCollector (the configuration of one split)
    segment,    \* Option<QuickwitSegmentCollector>: None before for_segment
    calls,      \* history: the collect calls made so far, in order
    fruit,      \* Option<Result<LeafSearchResponse>>: what harvest returned
                \* (or the error of for_segment, which ends the segment)
    segment_fruits, \* the Vec<Result<LeafSearchResponse>> given to merge_fruits
    merged_leaf_response, \* Option<Result<..>>: merge_fruits' local of that
                          \* name as merge_leaf_responses returned it
    merged      \* Option<Result<LeafSearchResponse>>: what merge_fruits returned

\* the sort-key encoder on its own: two f32 values and their encodings
VARIABLES
    value_a,    \* f32, by bit pattern
    value_b,    \* f32, by bit pattern
    encoded     \* Option<(u64, u64)>: f32_to_u64 of value_a and of value_b

\* the collector factory on its own
VARIABLES
    factory_args,     \* the arguments of make_collector_for_split
    collector_result, \* Option<Result<QuickwitCollector>>: what it returned
    warmup_result     \* Option: requires_scoring() and warmup_info() of
                      \* the collector made

\* the segments of one split collected by one worker each
VARIABLES
    workers     \* for every segment ordinal: the arguments for_segment got,
                \* the segment collector, the collect calls made on it and
                \* what harvest returned

\* the order of the heap items on its own
VARIABLES
    item_a,     \* PartialHitHeapItem
    item_b,     \* PartialHitHeapItem
    item_c,     \* PartialHitHeapItem
    orderings   \* Option: what cmp and == returned on these items

\* one call of a wait helper of the cluster sandbox
VARIABLES
    helper,        \* the name of the helper called
    required_num,  \* the count the helper waits for
    num_attempts,  \* its local of that name
    polls,         \* history: what the requests made so far returned
    slept_millis,  \* history: the sum of the sleeps so far
    wait_result    \* Option: how the call ended

segment_vars == <<segment, calls, fruit>>
merge_vars == <<segment_fruits, merged_leaf_response, merged>>
encoder_vars == <<value_a, value_b, encoded>>
factory_vars == <<factory_args, collector_result, warmup_result>>
\* the variables the segment collector and the merger do not touch
order_vars == <<item_a, item_b, item_c, orderings>>
wait_vars ==
    <<helper, required_num, num_attempts, polls, slept_millis, wait_result>>
aux_vars == <<encoder_vars, factory_vars, workers, order_vars, wait_vars>>
vars == <<collector, segment_vars, merge_vars, aux_vars>>

SegmentIdle == segment = <<>> /\ calls = <<>> /\ fruit = <<>>
MergeIdle ==
    segment_fruits = <<>> /\ merged_leaf_response = <<>> /\ merged = <<>>
EncoderIdle == value_a = 0 /\ value_b = 0 /\ encoded = <<>>
FactoryIdle ==
    factory_args = <<>> /\ collector_result = <<>> /\ warmup_result = <<>>
WorkersIdle == workers = <<>>
OrderIdle ==
    item_a = <<>> /\ item_b = <<>> /\ item_c = <<>> /\ orderings = <<>>
WaitIdle ==
    /\ helper = ""
    /\ required_num = 0
    /\ num_attempts = 0
    /\ polls = <<>>
    /\ slept_millis = 0
    /\ wait_result = <<>>
AuxIdle ==
    EncoderIdle /\ FactoryIdle /\ WorkersIdle /\ OrderIdle /\ WaitIdle

\* Result<T, E>
Ok(v) == [ok |-> TRUE, val |-> v]
Err(e) == [ok |-> FALSE, err |-> e]

SortOrders == {"Asc", "Desc"}

\* enum SortBy
SortBys ==
    {[kind |-> "DocId"]}
    \cup {[kind |-> "FastField", field_name |-> "price", order |-> o] :
            o \in SortOrders}
    \cup {[kind |-> "Score", order |-> o] : o \in SortOrders}

\* Option<QuickwitAggregations>: the family alone matters to the collector
Aggregations == {None, Some("FindTraceIdsAggregation"),
                 Some("TantivyAggregations")}

\* Option<TimestampFilterBuilder>
TimestampFilterBuilders == {None, Some([timestamp_field_name |-> "timestamp"])}

\* struct QuickwitCollector
QuickwitCollectors ==
    [split_id : SplitIds,
     start_offset : 0..MaxOffset,
     max_hits : 0..MaxHits,
     sort_by : SortBys,
     timestamp_filter_builder_opt : TimestampFilterBuilders,
     aggregation : Aggregations]

(***************************************************************************)
(* Collector factory.                                                      *)
(***************************************************************************)
\* SearchRequest::sort_order: Option<i32>, recognised or not
RequestSortOrders == {None, Some(0), Some(1), Some(2), Some(0 - 1)}

\* SearchRequest::sort_by_field: Option<String>
RequestSortByFields == {None, Some("_score"), Some("price"), Some("timestamp")}

\* SearchRequest::aggregation_request: Option<String>, JSON of a trace-id
\* aggregation, of generic aggregations, or of neither
AggregationRequests ==
    {None, Some("{find_trace_ids}"), Some("{aggs}"), Some("{")}

\* the fields of SearchRequest make_collector_for_split reads
SearchRequests ==
    [start_offset : 0..MaxOffset,
     max_hits : 0..MaxHits,
     sort_order : RequestSortOrders,
     sort_by_field : RequestSortByFields,
     start_timestamp : {None, Some(10)},
     end_timestamp : {None, Some(20)},
     aggregation_request : AggregationRequests]

\* DocMapper::timestamp_field_name(): Option<&str>
TimestampFieldNames == {None, Some("timestamp")}

\* SortOrder::from_i32: Asc = 0, Desc = 1, None for every other integer
from_i32(value) ==
    CASE value = 0 -> Some("Asc")
      [] value = 1 -> Some("Desc")
      [] OTHER -> None

\* serde_json::from_str into the untagged enum QuickwitAggregations
from_str(json) ==
    CASE json = "{find_trace_ids}" -> Ok("FindTraceIdsAggregation")
      [] json = "{aggs}" -> Ok("TantivyAggregations")
      [] OTHER -> Err("InvalidArgument")

\* create_timestamp_filter_builder: no builder without a timestamp field
\* or without a bound
create_timestamp_filter_builder(field_name_opt, start_opt, end_opt) ==
    IF IsSome(field_name_opt) /\ (IsSome(start_opt) \/ IsSome(end_opt))
    THEN Some([timestamp_field_name |-> Unwrap(field_name_opt)])
    ELSE None

\* the local sort_order with Asc for the default
request_sort_order_default_asc(search_request) ==
    LET recognised == IF IsSome(search_request.sort_order)
                      THEN from_i32(Unwrap(search_request.sort_order))
                      ELSE None
    IN  IF IsSome(recognised) THEN Unwrap(recognised) ELSE "Asc"

\* the local sort_order of make_collector_for_split:
\* sort_order.and_then(SortOrder::from_i32).unwrap_or(SortOrder::Desc)
request_sort_order(search_request) ==
    LET recognised == IF IsSome(search_request.sort_order)
                      THEN from_i32(Unwrap(search_request.sort_order))
                      ELSE None
    IN  IF IsSome(recognised) THEN Unwrap(recognised) ELSE "Desc"

\* the local sort_by of make_collector_for_split
request_sort_by(search_request) ==
    LET sort_order == request_sort_order(search_request)
    IN  IF IsSome(search_request.sort_by_field)
        THEN LET field_name == Unwrap(search_request.sort_by_field)
             IN  IF field_name = "_score"
                 THEN [kind |-> "Score", order |-> sort_order]
                 ELSE [kind |-> "FastField", field_name |-> field_name,
                       order |-> sort_order]
        ELSE [kind |-> "DocId"]

\* fn make_collector_for_split
make_collector_for_split(split_id, timestamp_field_name_opt, search_request) ==
    LET aggregation ==
            IF IsSome(search_request.aggregation_request)
            THEN from_str(Unwrap(search_request.aggregation_request))
            ELSE Ok(None)
    IN  IF ~aggregation.ok THEN aggregation
        ELSE Ok([split_id |-> split_id,
                 start_offset |-> search_request.start_offset,
                 max_hits |-> search_request.max_hits,
                 sort_by |-> request_sort_by(search_request),
                 timestamp_filter_builder_opt |->
                     create_timestamp_filter_builder(
                         timestamp_field_name_opt,
                         search_request.start_timestamp,
                         search_request.end_timestamp),
                 aggregation |->
                     IF IsSome(search_request.aggregation_request)
                     THEN Some(aggregation.val) ELSE None])

\* QuickwitAggregations::fast_field_names: the fast fields the aggregation
\* of each family reads
aggregation_fast_field_names(aggregations) ==
    IF aggregations = "FindTraceIdsAggregation"
    THEN {"trace_id", "timestamp"}
    ELSE {"price", "quantity"}

\* fast_field_names without the timestamp field
fast_field_names_without_timestamp(self) ==
    (IF self.sort_by.kind = "FastField" THEN {self.sort_by.field_name} ELSE {})
    \cup (IF IsSome(self.aggregation)
          THEN aggregation_fast_field_names(Unwrap(self.aggregation))
          ELSE {})

\* QuickwitCollector::fast_field_names: a HashSet filled in three steps
fast_field_names(self) ==
    LET from_sort_by ==
            IF self.sort_by.kind = "FastField"
            THEN {self.sort_by.field_name} ELSE {}
        with_aggregation ==
            IF IsSome(self.aggregation)
            THEN from_sort_by
                 \cup aggregation_fast_field_names(Unwrap(self.aggregation))
            ELSE from_sort_by
    IN  IF IsSome(self.timestamp_filter_builder_opt)
        THEN with_aggregation
             \cup {Unwrap(self.timestamp_filter_builder_opt)
                       .timestamp_field_name}
        ELSE with_aggregation

\* QuickwitCollector::requires_scoring
requires_scoring(self) ==
    CASE self.sort_by.kind \in {"DocId", "FastField"} -> FALSE
      [] self.sort_by.kind = "Score" -> TRUE

\* QuickwitCollector::warmup_info (the fields it sets)
warmup_info(self) ==
    [term_dict_field_names |-> {},
     fast_field_names |-> fast_field_names(self),
     field_norms |-> requires_scoring(self)]

(***************************************************************************)
(* The segment reader, as far as for_segment reads it.                     *)
(***************************************************************************)
\* the column of the scenario "Ascending sort": values 10, 5, 7 for the
\* docs 0, 1, 2 (and greater values for further docs)
AscendingSortColumn ==
    [d \in DocIds |-> Some(IF d = 0 THEN 10 ELSE IF d = 1 THEN 5 ELSE 5 + d)]

\* the u64 columns a segment may hold for the sort field: values growing
\* with the doc id, doc 1 without a value (and so tied with doc 0), values
\* falling with the doc id from u64::MAX, the last two docs tied, and the
\* column of the scenario
FastFieldColumns ==
    {[d \in DocIds |-> IF d = 1 THEN None ELSE Some(d)],
     [d \in DocIds |-> Some(U64_MAX - Min(d, MaxDocId - 1))],
     AscendingSortColumn}

\* fast_fields().u64_lenient(field_name): Option<Column>
U64Lenient == {None} \cup {Some(c) : c \in FastFieldColumns}

\* TimestampFilter::is_within_range, by the set of docs within the range:
\* the first doc alone, or every doc but the first
TimestampFilters == {[within |-> {0}], [within |-> 1..MaxDocId]}

\* TimestampFilterBuilder::build: Option<TimestampFilter>
BuiltFilters == {None} \cup {Some(f) : f \in TimestampFilters}

is_within_range(timestamp_filter, doc_id) == doc_id \in timestamp_filter.within

\* resolve_sort_by
resolve_sort_by(sort_by, sort_column_opt) ==
    CASE sort_by.kind = "DocId" -> [kind |-> "DocId"]
      [] sort_by.kind = "FastField" ->
           [kind |-> "FastField",
            sort_column |-> IF IsSome(sort_column_opt)
                            THEN Unwrap(sort_column_opt)
                            ELSE build_empty_column,
            order |-> sort_by.order]
      [] sort_by.kind = "Score" -> [kind |-> "Score", order |-> sort_by.order]

\* for_segment sizing the heap by max_hits alone
for_segment_without_offset(self, segment_ord, sort_column_opt, built_filter) ==
    [num_hits |-> 0,
     split_id |-> self.split_id,
     sort_by |-> resolve_sort_by(self.sort_by, sort_column_opt),
     hits |-> <<>>,
     segment_ord |-> segment_ord,
     max_hits |-> self.max_hits,
     timestamp_filter_opt |->
         IF IsSome(self.timestamp_filter_builder_opt)
         THEN built_filter ELSE None,
     aggregation |->
         IF IsSome(self.aggregation)
         THEN Some([family |-> Unwrap(self.aggregation),
                    collected |-> <<>>])
         ELSE None]

\* QuickwitCollector::for_segment, the segment collector it returns
for_segment(self, segment_ord, sort_column_opt, built_filter) ==
    LET leaf_max_hits == self.max_hits + self.start_offset
    IN  [num_hits |-> 0,
         split_id |-> self.split_id,
         sort_by |-> resolve_sort_by(self.sort_by, sort_column_opt),
         hits |-> <<>>,
         segment_ord |-> segment_ord,
         max_hits |-> leaf_max_hits,
         timestamp_filter_opt |->
             IF IsSome(self.timestamp_filter_builder_opt)
             THEN built_filter ELSE None,
         aggregation |->
             IF IsSome(self.aggregation)
             THEN Some([family |-> Unwrap(self.aggregation),
                        collected |-> <<>>])
             ELSE None]

(***************************************************************************)
(* QuickwitSegmentCollector.                                               *)
(***************************************************************************)
\* at_capacity with > for >=
at_capacity_off_by_one(self) == Len(self.hits) > self.max_hits

at_capacity(self) == Len(self.hits) >= self.max_hits

\* collect_top_k pushing when the heap at capacity has no head
collect_top_k_pushes_without_head(self, doc_id, score) ==
    LET sorting_field_value ==
            compute_sorting_field(self.sort_by, doc_id, score)
        head == peek(self.hits)
        item == PartialHitHeapItem(sorting_field_value, doc_id)
    IN  IF at_capacity(self) /\ IsSome(head)
        THEN IF Unwrap(head).sorting_field_value < sorting_field_value
             THEN [self EXCEPT !.hits = peek_mut_set(self.hits, item)]
             ELSE self
        ELSE [self EXCEPT !.hits = push(self.hits, item)]

\* collect_top_k replacing the head when the new key is not lower: <= for <
collect_top_k_replaces_on_tie(self, doc_id, score) ==
    LET sorting_field_value ==
            compute_sorting_field(self.sort_by, doc_id, score)
        head == peek(self.hits)
    IN  IF at_capacity(self)
        THEN IF IsSome(head)
                /\ Unwrap(head).sorting_field_value <= sorting_field_value
             THEN [self EXCEPT !.hits =
                      peek_mut_set(self.hits,
                          PartialHitHeapItem(sorting_field_value, doc_id))]
             ELSE self
        ELSE [self EXCEPT !.hits =
                 push(self.hits,
                      PartialHitHeapItem(sorting_field_value, doc_id))]

collect_top_k(self, doc_id, score) ==
    LET sorting_field_value ==
            compute_sorting_field(self.sort_by, doc_id, score)
        head == peek(self.hits)
    IN  IF at_capacity(self)
        THEN IF IsSome(head)
                /\ Unwrap(head).sorting_field_value < sorting_field_value
             THEN [self EXCEPT !.hits =
                      peek_mut_set(self.hits,
                          PartialHitHeapItem(sorting_field_value, doc_id))]
             ELSE self
        ELSE [self EXCEPT !.hits =
                 push(self.hits,
                      PartialHitHeapItem(sorting_field_value, doc_id))]

accept_document(self, doc_id) ==
    IF IsSome(self.timestamp_filter_opt)
    THEN is_within_range(Unwrap(self.timestamp_filter_opt), doc_id)
    ELSE TRUE

\* the aggregation sub-collector's collect(doc_id, score)
aggregation_collect(aggregation, doc_id, score) ==
    IF IsSome(aggregation)
    THEN Some([Unwrap(aggregation) EXCEPT
                  !.collected = Append(@, <<doc_id, score>>)])
    ELSE None

\* collect counting the document before the timestamp filter is asked
collect_counts_before_filter(self, doc_id, score) ==
    LET counted == [self EXCEPT !.num_hits = @ + 1]
    IN  IF ~accept_document(self, doc_id)
        THEN counted
        ELSE [collect_top_k(counted, doc_id, score) EXCEPT !.aggregation =
                 aggregation_collect(@, doc_id, score)]

\* collect filtering the hits alone: a rejected document still reaches the
\* aggregation
collect_aggregates_rejected(self, doc_id, score) ==
    IF ~accept_document(self, doc_id)
    THEN [self EXCEPT !.aggregation = aggregation_collect(@, doc_id, score)]
    ELSE [collect_top_k([self EXCEPT !.num_hits = @ + 1], doc_id, score)
             EXCEPT !.aggregation = aggregation_collect(@, doc_id, score)]

\* collect forwarding to the aggregation only the documents the heap took
collect_aggregates_ranked_only(self, doc_id, score) ==
    IF ~accept_document(self, doc_id)
    THEN self
    ELSE LET counted == [self EXCEPT !.num_hits = @ + 1]
             ranked == collect_top_k(counted, doc_id, score)
         IN  IF ranked.hits = counted.hits
             THEN ranked
             ELSE [ranked EXCEPT !.aggregation =
                      aggregation_collect(@, doc_id, score)]

\* SegmentCollector::collect
collect(self, doc_id, score) ==
    IF ~accept_document(self, doc_id)
    THEN self
    ELSE LET counted == [self EXCEPT !.num_hits = @ + 1]
             ranked == collect_top_k(counted, doc_id, score)
         IN  [ranked EXCEPT !.aggregation =
                 aggregation_collect(@, doc_id, score)]

\* struct PartialHit
PartialHit(hit, split_id, segment_ord) ==
    [sorting_field_value |-> hit.sorting_field_value,
     segment_ord |-> segment_ord,
     doc_id |-> hit.doc_id,
     split_id |-> split_id]

\* postcard::to_allocvec of an aggregation fruit, when it succeeds: the
\* bytes carry the fruit's type and content
to_allocvec(family, agg_fruit) == [encoded |-> family, payload |-> agg_fruit]

\* a panic: the call does not return
Panic(message) == [ok |-> FALSE, panic |-> message]
IsPanic(result) == "panic" \in DOMAIN result

\* harvest reporting one attempted split per counted hit
harvest_attempts_per_hit(self, agg_harvest_ok, serialize_ok) ==
    LET sorted == into_sorted_vec(self.hits)
        agg == self.aggregation
    IN  IF IsSome(agg) /\ Unwrap(agg).family = "TantivyAggregations"
           /\ ~agg_harvest_ok
        THEN Err("AggregationError")
        ELSE IF IsSome(agg) /\ ~serialize_ok
        THEN Panic("Collector fruit should be serializable.")
        ELSE Ok([intermediate_aggregation_result |->
                     IF IsSome(agg)
                     THEN Some(to_allocvec(Unwrap(agg).family,
                                           Unwrap(agg).collected))
                     ELSE None,
                 num_hits |-> self.num_hits,
                 partial_hits |->
                     [i \in 1..Len(sorted) |->
                         PartialHit(sorted[i], self.split_id,
                                    self.segment_ord)],
                 failed_splits |-> <<>>,
                 num_attempted_splits |-> self.num_hits])

\* SegmentCollector::harvest; agg_harvest_ok is the outcome of the tantivy
\* aggregation collector's own harvest, serialize_ok that of
\* postcard::to_allocvec, whose Err meets `expect`
harvest(self, agg_harvest_ok, serialize_ok) ==
    LET sorted == into_sorted_vec(self.hits)
        partial_hits ==
            [i \in 1..Len(sorted) |->
                PartialHit(sorted[i], self.split_id, self.segment_ord)]
        agg == self.aggregation
    IN  IF IsSome(agg) /\ Unwrap(agg).family = "TantivyAggregations"
           /\ ~agg_harvest_ok
        THEN Err("AggregationError")
        ELSE IF IsSome(agg) /\ ~serialize_ok
        THEN Panic("Collector fruit should be serializable.")
        ELSE Ok([intermediate_aggregation_result |->
                     IF IsSome(agg)
                     THEN Some(to_allocvec(Unwrap(agg).family,
                                           Unwrap(agg).collected))
                     ELSE None,
                 num_hits |-> self.num_hits,
                 partial_hits |-> partial_hits,
                 failed_splits |-> <<>>,
                 num_attempted_splits |-> 1])

(***************************************************************************)
(* The segment collector as a state machine.                               *)
(***************************************************************************)
Init ==
    /\ collector \in QuickwitCollectors
    /\ SegmentIdle
    /\ MergeIdle
    /\ AuxIdle

\* tantivy calls for_segment once per segment before any collect; reading
\* the segment may fail (the `?` of for_segment), and then there is no
\* segment collector
ForSegment ==
    /\ segment = None
    /\ fruit = None
    /\ \/ \E segment_ord \in SegmentOrds, sort_column_opt \in U64Lenient,
             built_filter \in BuiltFilters :
             /\ (collector.sort_by.kind # "FastField"
                    => sort_column_opt = None)
             /\ (collector.timestamp_filter_builder_opt = None
                    => built_filter = None)
             /\ segment' = Some(for_segment(collector, segment_ord,
                                            sort_column_opt, built_filter))
             /\ fruit' = fruit
       \/ /\ segment' = segment
          /\ fruit' = Some(Err("SegmentIoError"))
    /\ UNCHANGED <<collector, calls, merge_vars, aux_vars>>

\* docs already passed to collect
Collected == {calls[i].doc_id : i \in 1..Len(calls)}

\* one collect(doc_id, score) call; the score is 0.0 unless the collector
\* requires scoring
Collect ==
    /\ IsSome(segment)
    /\ fruit = None
    /\ Len(calls) < MaxCalls
    /\ \E doc_id \in DocIds \ Collected,
          score \in IF collector.sort_by.kind = "Score"
                    THEN Scores ELSE {NoScore} :
          /\ segment' = Some(collect(Unwrap(segment), doc_id, score))
          /\ calls' = Append(calls, [doc_id |-> doc_id, score |-> score])
    /\ UNCHANGED <<collector, fruit, merge_vars, aux_vars>>

\* harvest(self) consumes the segment collector
Harvest ==
    /\ IsSome(segment)
    /\ fruit = None
    /\ \E agg_harvest_ok \in BOOLEAN, serialize_ok \in BOOLEAN :
          fruit' = Some(harvest(Unwrap(segment), agg_harvest_ok, serialize_ok))
    /\ UNCHANGED <<collector, segment, calls, merge_vars, aux_vars>>

Next == ForSegment \/ Collect \/ Harvest

Spec == Init /\ [][Next]_vars

(***************************************************************************)
(* Leaf merger.                                                            *)
(***************************************************************************)
\* str::cmp on the split ids in use: byte-wise, so "" < "split_1" < ...
StrRank(str) ==
    CASE str = "" -> 0
      [] str = "split_1" -> 1
      [] str = "split_2" -> 2
      [] str = "split_3" -> 3

\* crate::partial_hit_sorting_key: the key reversed, then the address
\* (split_id, segment_ord, doc_id)
partial_hit_sorting_key(partial_hit) ==
    <<U64_MAX - partial_hit.sorting_field_value,
      StrRank(partial_hit.split_id),
      partial_hit.segment_ord,
      partial_hit.doc_id>>

\* Ord::cmp on the tuples partial_hit_sorting_key returns
RECURSIVE tuple_cmp(_, _, _)
tuple_cmp(left_key, right_key, i) ==
    IF i > Len(left_key) THEN "Equal"
    ELSE then_with(int_cmp(left_key[i], right_key[i]),
                   tuple_cmp(left_key, right_key, i + 1))

\* the closure comparing the keys alone, not the addresses
compare_partial_hits_by_key(left, right) ==
    int_cmp(U64_MAX - left.sorting_field_value,
            U64_MAX - right.sorting_field_value)

\* the closure top_k_partial_hits sorts by
compare_partial_hits(left, right) ==
    tuple_cmp(partial_hit_sorting_key(left), partial_hit_sorting_key(right), 1)

\* one element put into a sorted vector, after the elements not greater
RECURSIVE sorted_insert(_, _)
sorted_insert(sorted, hit) ==
    IF sorted = <<>> THEN <<hit>>
    ELSE IF compare_partial_hits(hit, Head(sorted)) = "Less"
         THEN <<hit>> \o sorted
         ELSE <<Head(sorted)>> \o sorted_insert(Tail(sorted), hit)

\* slice::sort_unstable_by with compare_partial_hits: hits that compare
\* Equal are equal in every field, so every sorting algorithm returns the
\* same vector
RECURSIVE sort_unstable_by(_)
sort_unstable_by(partial_hits) ==
    IF partial_hits = <<>> THEN <<>>
    ELSE sorted_insert(sort_unstable_by(Tail(partial_hits)),
                       Head(partial_hits))

\* truncate leaving the vector as long as it was
truncate_keeps_all(vec, len) == vec

\* Vec::truncate
truncate(vec, len) == SubSeq(vec, 1, Min(len, Len(vec)))

\* top_k_partial_hits truncating before it sorts
top_k_truncate_first(partial_hits, num_hits) ==
    sort_unstable_by(truncate(partial_hits, num_hits))

\* fn top_k_partial_hits
top_k_partial_hits(partial_hits, num_hits) ==
    truncate(sort_unstable_by(partial_hits), num_hits)

\* fn map_error: TantivyError::InternalError with a message
map_error(err) == "InternalError: Merge Result Postcard Error: " \o err

\* postcard::from_bytes(..).map_err(map_error) into a fruit of the family
from_bytes(family, bytes) ==
    IF bytes.encoded = family
    THEN Ok(bytes.payload)
    ELSE Err(map_error("DeserializeUnexpectedEnd"))

\* the postcard errors of the model and the internal errors made of them
PostcardErrors == {"DeserializeUnexpectedEnd", "SerializeBufferFull"}
InternalErrors == {map_error(err) : err \in PostcardErrors}

\* what the aggregation family's merge and postcard::to_allocvec do in one
\* merge: both succeed, the merge fails, or the serialization fails
MergeOutcomes == {"ok", "merge_error", "serialize_error"}

\* the deserialized fruits of the responses that carry an intermediate, in
\* input order: Err of the first that does not deserialize
RECURSIVE deserialize_fruits(_, _)
deserialize_fruits(family, leaf_responses) ==
    IF leaf_responses = <<>> THEN Ok(<<>>)
    ELSE LET bytes_opt == Head(leaf_responses).intermediate_aggregation_result
             rest == deserialize_fruits(family, Tail(leaf_responses))
         IN  IF ~IsSome(bytes_opt) THEN rest
             ELSE LET one == from_bytes(family, Unwrap(bytes_opt))
                  IN  IF ~one.ok THEN one
                      ELSE IF ~rest.ok THEN rest
                      ELSE Ok(<<one.val>> \o rest.val)

\* FindTraceIdsCollector::merge_fruits(fruits): one fruit from all
RECURSIVE find_trace_ids_merge_fruits(_)
find_trace_ids_merge_fruits(fruits) ==
    IF fruits = <<>> THEN <<>>
    ELSE Head(fruits) \o find_trace_ids_merge_fruits(Tail(fruits))

\* IntermediateAggregationResults::merge_fruits(other), on the accumulator.
\* The family's merge is tantivy's; here the accumulator keeps both
\* operands in order and the sizes they had, so that neither the order nor
\* the grouping of the calls is lost.
intermediate_merge_fruits(merged_fruit, other) ==
    merged_fruit \o other \o <<<<Len(merged_fruit), Len(other)>>>>

\* the loop folding from the right: the later fruits are merged first
RECURSIVE fold_fruits_from_right(_, _)
fold_fruits_from_right(merged_fruit, fruit_iter) ==
    IF fruit_iter = <<>> THEN merged_fruit
    ELSE intermediate_merge_fruits(merged_fruit,
             fold_fruits_from_right(Head(fruit_iter), Tail(fruit_iter)))

\* `for fruit in fruit_iter { merged_fruit.merge_fruits(fruit)?; }`
RECURSIVE fold_fruits(_, _)
fold_fruits(merged_fruit, fruit_iter) ==
    IF fruit_iter = <<>> THEN merged_fruit
    ELSE fold_fruits(intermediate_merge_fruits(merged_fruit, Head(fruit_iter)),
                     Tail(fruit_iter))

\* the match with the generic family serializing like the trace-id family,
\* without the test for a first fruit
merge_intermediate_always_serializes(aggregations_opt, leaf_responses, out) ==
    IF ~IsSome(aggregations_opt) THEN Ok(None)
    ELSE LET family == Unwrap(aggregations_opt)
             fruits == deserialize_fruits(family, leaf_responses)
         IN  IF ~fruits.ok THEN fruits
             ELSE IF out = "merge_error" THEN Err("AggregationError")
             ELSE IF out = "serialize_error"
             THEN Err(map_error("SerializeBufferFull"))
             ELSE Ok(Some(to_allocvec(family,
                                     find_trace_ids_merge_fruits(fruits.val))))

\* the match of merge_leaf_responses on aggregations_opt:
\* Result<Option<bytes>>; out is the outcome of the family's merge_fruits
\* and of postcard::to_allocvec
merge_intermediate_aggregation_result(aggregations_opt, leaf_responses, out) ==
    IF ~IsSome(aggregations_opt) THEN Ok(None)
    ELSE LET family == Unwrap(aggregations_opt)
             fruits == deserialize_fruits(family, leaf_responses)
         IN  IF ~fruits.ok THEN fruits
             ELSE IF family = "FindTraceIdsAggregation"
             THEN IF out = "merge_error" THEN Err("AggregationError")
                  ELSE IF out = "serialize_error"
                  THEN Err(map_error("SerializeBufferFull"))
                  ELSE Ok(Some(to_allocvec(family,
                               find_trace_ids_merge_fruits(fruits.val))))
             ELSE IF fruits.val # <<>>
             THEN IF out = "merge_error" /\ Len(fruits.val) >= 2
                  THEN Err("AggregationError")
                  ELSE IF out = "serialize_error"
                  THEN Err(map_error("SerializeBufferFull"))
                  ELSE Ok(Some(to_allocvec(family,
                          fold_fruits(Head(fruits.val), Tail(fruits.val)))))
             ELSE Ok(None)

\* the field of the first response in place of the sum
sum_field_first(leaf_responses, field) ==
    IF leaf_responses = <<>> THEN 0 ELSE Head(leaf_responses)[field]

\* Iterator::sum over a field of the responses
RECURSIVE sum_field(_, _)
sum_field(leaf_responses, field) ==
    IF leaf_responses = <<>> THEN 0
    ELSE Head(leaf_responses)[field] + sum_field(Tail(leaf_responses), field)

\* Iterator::flat_map(..).collect over a vector field of the responses
RECURSIVE flat_field(_, _)
flat_field(leaf_responses, field) ==
    IF leaf_responses = <<>> THEN <<>>
    ELSE Head(leaf_responses)[field] \o flat_field(Tail(leaf_responses), field)

\* fn merge_leaf_responses
merge_leaf_responses(aggregations_opt, leaf_responses, max_hits, out) ==
    IF Len(leaf_responses) = 1
    THEN Ok(leaf_responses[1])
    ELSE LET merged_intermediate_aggregation_result ==
                 merge_intermediate_aggregation_result(aggregations_opt,
                                                       leaf_responses, out)
             all_partial_hits == flat_field(leaf_responses, "partial_hits")
         IN  IF ~merged_intermediate_aggregation_result.ok
             THEN merged_intermediate_aggregation_result
             ELSE Ok([intermediate_aggregation_result |->
                          merged_intermediate_aggregation_result.val,
                      num_hits |-> sum_field(leaf_responses, "num_hits"),
                      partial_hits |->
                          top_k_partial_hits(all_partial_hits, max_hits),
                      failed_splits |->
                          flat_field(leaf_responses, "failed_splits"),
                      num_attempted_splits |->
                          sum_field(leaf_responses, "num_attempted_splits")])

\* collect() going on after an error: the last error is the one returned
RECURSIVE collect_results_last_error(_)
collect_results_last_error(results) ==
    IF results = <<>> THEN Ok(<<>>)
    ELSE LET rest == collect_results_last_error(Tail(results))
         IN  IF ~rest.ok THEN rest
             ELSE IF ~Head(results).ok THEN Head(results)
             ELSE Ok(<<Head(results).val>> \o rest.val)

\* `segment_fruits.into_iter().collect()` into Result<Vec<_>>: the
\* responses, or the first error
RECURSIVE collect_results(_)
collect_results(results) ==
    IF results = <<>> THEN Ok(<<>>)
    ELSE IF ~Head(results).ok THEN Head(results)
    ELSE LET rest == collect_results(Tail(results))
         IN  IF ~rest.ok THEN rest
             ELSE Ok(<<Head(results).val>> \o rest.val)

\* drain of the last n elements in place of the first n
drain_back(vec, n) == SubSeq(vec, 1, Len(vec) - n)

\* Vec::drain(0..n), what is left in the vector
drain_front(vec, n) == SubSeq(vec, n + 1, Len(vec))

\* the first half of QuickwitCollector::merge_fruits: the value of its
\* local merged_leaf_response before the drain
merge_fruits_leaf_response(self, fruits, out) ==
    LET collected == collect_results(fruits)
        num_hits == self.start_offset + self.max_hits
    IN  IF ~collected.ok THEN collected
        ELSE merge_leaf_responses(self.aggregation, collected.val, num_hits,
                                  out)

\* merge_fruits dropping max_hits hits in place of start_offset hits
merge_fruits_drains_max_hits(self, fruits, out) ==
    LET merged_leaf == merge_fruits_leaf_response(self, fruits, out)
    IN  IF ~merged_leaf.ok THEN merged_leaf
        ELSE Ok([merged_leaf.val EXCEPT !.partial_hits =
                    drain_front(@, Min(self.max_hits, Len(@)))])

\* merge_fruits dropping nothing when fewer than start_offset hits are left
merge_fruits_keeps_short_list(self, fruits, out) ==
    LET merged_leaf == merge_fruits_leaf_response(self, fruits, out)
    IN  IF ~merged_leaf.ok THEN merged_leaf
        ELSE Ok([merged_leaf.val EXCEPT !.partial_hits =
                    IF Len(@) < self.start_offset THEN @
                    ELSE drain_front(@, self.start_offset)])

\* QuickwitCollector::merge_fruits
merge_fruits(self, fruits, out) ==
    LET merged_leaf == merge_fruits_leaf_response(self, fruits, out)
    IN  IF ~merged_leaf.ok THEN merged_leaf
        ELSE Ok([merged_leaf.val EXCEPT !.partial_hits =
                    drain_front(@, Min(self.start_offset, Len(@)))])

(***************************************************************************)
(* The leaf merger as a state machine: fruits arrive one by one, then      *)
(* merge_fruits is called once on the list.                                *)
(***************************************************************************)
MergeSplitIds == {"split_1", "split_2", "split_3"}

Hit(sorting_field_value, split_id, segment_ord, doc_id) ==
    [sorting_field_value |-> sorting_field_value,
     segment_ord |-> segment_ord,
     doc_id |-> doc_id,
     split_id |-> split_id]

\* the partial hits a fruit may carry: none, one hit (two keys, and
\* addresses that differ in the split, the segment or the doc alone), or
\* two hits of one segment, best first, worst first or tied on the key
OneHits ==
    {Hit(k, a[1], a[2], a[3]) :
        k \in {1, 2},
        a \in {<<"split_1", 0, 0>>, <<"split_1", 0, 1>>,
               <<"split_1", 1, 0>>, <<"split_2", 0, 0>>}}

FruitPartialHits ==
    {<<>>}
    \cup {<<h>> : h \in OneHits}
    \cup {<<Hit(2, "split_3", 0, 0), Hit(1, "split_3", 0, 1)>>,
          <<Hit(1, "split_3", 0, 1), Hit(2, "split_3", 0, 0)>>,
          <<Hit(1, "split_3", 0, 0), Hit(1, "split_3", 0, 1)>>}

\* what harvest forwarded to the aggregation for these hits
CollectedOf(partial_hits) ==
    [i \in 1..Len(partial_hits) |-> <<partial_hits[i].doc_id, NoScore>>]

\* a segment's fruit without aggregation, as harvest builds it
PlainFruit(partial_hits) ==
    [intermediate_aggregation_result |-> None,
     num_hits |-> Len(partial_hits),
     partial_hits |-> partial_hits,
     failed_splits |-> <<>>,
     num_attempted_splits |-> 1]

\* a fruit of an earlier merge: an intermediate of the given family, more
\* hits counted than kept, a failed split
AggregatedFruit(family, partial_hits) ==
    [intermediate_aggregation_result |->
         Some(to_allocvec(family, CollectedOf(partial_hits))),
     num_hits |-> Len(partial_hits) + 1,
     partial_hits |-> partial_hits,
     failed_splits |-> <<"failed_" \o IF partial_hits = <<>> THEN "split_0"
                                      ELSE partial_hits[1].split_id>>,
     num_attempted_splits |-> 2]

\* the family the intermediates of the incoming fruits were built for
FruitFamily ==
    IF IsSome(collector.aggregation) THEN Unwrap(collector.aggregation)
    ELSE "TantivyAggregations"

SegmentFruits ==
    {Ok(PlainFruit(ph)) : ph \in FruitPartialHits}
    \cup {Ok(AggregatedFruit(FruitFamily, ph)) : ph \in FruitPartialHits}
    \cup {Ok(AggregatedFruit("garbage", <<>>))}
    \cup {Err("SegmentIoError"), Err("AggregationError")}

\* scenario "Offset drop": five fruits of one hit each, with keys 5..1
OffsetDropFruits ==
    [i \in 1..5 |-> Ok(PlainFruit(<<Hit(6 - i, "split_1", i - 1, 0)>>))]

\* scenario "fold": four fruits; the second has no intermediate, the others
\* have intermediates of different content
FoldFruits ==
    <<Ok(AggregatedFruit(FruitFamily, <<Hit(2, "split_1", 0, 0)>>)),
      Ok(PlainFruit(<<Hit(1, "split_1", 1, 0)>>)),
      Ok(AggregatedFruit(FruitFamily, <<Hit(1, "split_2", 0, 1)>>)),
      Ok(AggregatedFruit(FruitFamily, <<>>))>>

\* the collectors merge_fruits is called on, as far as it reads them:
\* start_offset, max_hits and aggregation
MergeCollectors ==
    {c \in QuickwitCollectors :
        /\ c.split_id = "split_1"
        /\ c.sort_by.kind = "DocId"
        /\ c.timestamp_filter_builder_opt = None}

InitMerge ==
    /\ collector \in MergeCollectors
    /\ SegmentIdle
    /\ segment_fruits \in {<<>>, OffsetDropFruits, FoldFruits}
    /\ merged_leaf_response = None
    /\ merged = None
    /\ AuxIdle

\* one more fruit arrives
PushFruit ==
    /\ merged = None
    /\ Len(segment_fruits) < MaxFruits
    /\ \E segment_fruit \in SegmentFruits :
          segment_fruits' = Append(segment_fruits, segment_fruit)
    /\ UNCHANGED <<collector, segment_vars, merged_leaf_response, merged,
                   aux_vars>>

\* merge_fruits(segment_fruits)
MergeFruits ==
    /\ merged = None
    /\ \E out \in MergeOutcomes :
          /\ merged_leaf_response' =
                 Some(merge_fruits_leaf_response(collector, segment_fruits,
                                                 out))
          /\ merged' = Some(merge_fruits(collector, segment_fruits, out))
    /\ UNCHANGED <<collector, segment_vars, segment_fruits, aux_vars>>

NextMerge == PushFruit \/ MergeFruits

SpecMerge == InitMerge /\ [][NextMerge]_vars

(***************************************************************************)
(* The sort-key encoder as a state machine: two f32 values are drawn and   *)
(* f32_to_u64 is applied to each.                                          *)
(***************************************************************************)
InitEncoder ==
    /\ collector = <<>>
    /\ SegmentIdle
    /\ MergeIdle
    /\ value_a \in F32Bits
    /\ value_b \in F32Bits
    /\ encoded = None
    /\ FactoryIdle
    /\ WorkersIdle
    /\ OrderIdle
    /\ WaitIdle

F32ToU64 ==
    /\ encoded = None
    /\ encoded' = Some(<<f32_to_u64(value_a), f32_to_u64(value_b)>>)
    /\ UNCHANGED <<collector, segment_vars, merge_vars, value_a, value_b,
                   factory_vars, workers, order_vars, wait_vars>>

NextEncoder == F32ToU64

SpecEncoder == InitEncoder /\ [][NextEncoder]_vars

(***************************************************************************)
(* The collector factory as a state machine: a collector is made for a     *)
(* split from a request, then asked what it needs warmed up.               *)
(***************************************************************************)
InitFactory ==
    /\ collector = <<>>
    /\ SegmentIdle
    /\ MergeIdle
    /\ EncoderIdle
    /\ factory_args \in [split_id : SplitIds,
                          timestamp_field_name_opt : TimestampFieldNames,
                          search_request : SearchRequests]
    /\ collector_result = None
    /\ warmup_result = None
    /\ WorkersIdle
    /\ OrderIdle
    /\ WaitIdle

MakeCollectorForSplit ==
    /\ collector_result = None
    /\ collector_result' =
           Some(make_collector_for_split(factory_args.split_id,
                                         factory_args.timestamp_field_name_opt,
                                         factory_args.search_request))
    /\ UNCHANGED <<collector, segment_vars, merge_vars, encoder_vars,
                   factory_args, warmup_result, workers, order_vars, wait_vars>>

\* requires_scoring() and warmup_info() of the collector made
WarmupInfo ==
    /\ IsSome(collector_result)
    /\ Unwrap(collector_result).ok
    /\ warmup_result = None
    /\ LET self == Unwrap(collector_result).val
       IN  warmup_result' = Some([requires_scoring |-> requires_scoring(self),
                                  warmup_info |-> warmup_info(self)])
    /\ UNCHANGED <<collector, segment_vars, merge_vars, encoder_vars,
                   factory_args, collector_result, workers, order_vars, wait_vars>>

NextFactory == MakeCollectorForSplit \/ WarmupInfo

SpecFactory == InitFactory /\ [][NextFactory]_vars

(***************************************************************************)
(* Several segments of one split, each collected by a worker of its own;   *)
(* the steps of the workers interleave in every way.  The fruits are       *)
(* merged in the order of the segments once every segment is done.         *)
(***************************************************************************)
\* the collectors the workers are created from: every capacity; sorting by
\* doc id with and without a timestamp filter and an aggregation, or by a
\* fast field, whose values may tie, without them
ParallelCollectors ==
    {c \in QuickwitCollectors :
        /\ c.split_id = "split_1"
        /\ c.start_offset <= 1
        /\ \/ c.sort_by.kind = "DocId"
           \/ /\ c.sort_by.kind = "FastField"
              /\ c.sort_by.order = "Desc"
              /\ c.timestamp_filter_builder_opt = None
              /\ c.aggregation = None}

\* a segment no worker has started on
NoWorker ==
    [args |-> None, segment |-> None, calls |-> <<>>, harvest_ok |-> TRUE,
     serialize_ok |-> TRUE, fruit |-> None]

InitParallel ==
    /\ collector \in ParallelCollectors
    /\ SegmentIdle
    /\ MergeIdle
    /\ EncoderIdle
    /\ FactoryIdle
    /\ workers = [segment_ord \in SegmentOrds |-> NoWorker]
    /\ OrderIdle
    /\ WaitIdle

\* collect with num_hits a counter shared by the segment collectors
worker_collect_shared_counter(all_workers, w, doc_id, score) ==
    [v \in DOMAIN all_workers |->
        IF v = w
        THEN [all_workers[v] EXCEPT
                 !.segment = Some(collect(Unwrap(@), doc_id, score)),
                 !.calls = Append(@, [doc_id |-> doc_id, score |-> score])]
        ELSE IF IsSome(all_workers[v].segment)
        THEN [all_workers[v] EXCEPT
                 !.segment = Some([Unwrap(@) EXCEPT !.num_hits = @ + 1])]
        ELSE all_workers[v]]

\* collect(&mut self, ..) by the worker of segment w: the segment collector
\* of w changes, no other
worker_collect(all_workers, w, doc_id, score) ==
    [all_workers EXCEPT
        ![w].segment = Some(collect(Unwrap(@), doc_id, score)),
        ![w].calls = Append(@, [doc_id |-> doc_id, score |-> score])]

WorkerForSegment(w) ==
    /\ merged = None
    /\ workers[w].segment = None
    /\ workers[w].fruit = None
    /\ \/ \E sort_column_opt \in U64Lenient, built_filter \in BuiltFilters :
             /\ (collector.sort_by.kind # "FastField"
                    => sort_column_opt = None)
             /\ (collector.timestamp_filter_builder_opt = None
                    => built_filter = None)
             /\ workers' =
                   [workers EXCEPT
                       ![w].args = Some([sort_column_opt |-> sort_column_opt,
                                         built_filter |-> built_filter]),
                       ![w].segment =
                           Some(for_segment(collector, w, sort_column_opt,
                                            built_filter))]
       \/ workers' = [workers EXCEPT ![w].fruit = Some(Err("SegmentIoError"))]
    /\ UNCHANGED <<collector, segment_vars, merge_vars, encoder_vars,
                   factory_vars, order_vars, wait_vars>>

\* the scan of a segment passes its docs in increasing order
WorkerCollect(w) ==
    /\ IsSome(workers[w].segment)
    /\ workers[w].fruit = None
    /\ Len(workers[w].calls) < MaxCalls
    /\ \E doc_id \in DocIds :
          /\ \A i \in 1..Len(workers[w].calls) :
                workers[w].calls[i].doc_id < doc_id
          /\ workers' = worker_collect(workers, w, doc_id, NoScore)
    /\ UNCHANGED <<collector, segment_vars, merge_vars, encoder_vars,
                   factory_vars, order_vars, wait_vars>>

WorkerHarvest(w) ==
    /\ IsSome(workers[w].segment)
    /\ workers[w].fruit = None
    /\ \E agg_harvest_ok \in BOOLEAN, serialize_ok \in BOOLEAN :
          \* an outcome is chosen where harvest comes to ask for it
          /\ ~agg_harvest_ok =>
                /\ IsSome(Unwrap(workers[w].segment).aggregation)
                /\ Unwrap(Unwrap(workers[w].segment).aggregation).family
                      = "TantivyAggregations"
                /\ serialize_ok
          /\ ~serialize_ok => IsSome(Unwrap(workers[w].segment).aggregation)
          /\ workers' =
             [workers EXCEPT
                 ![w].harvest_ok = agg_harvest_ok,
                 ![w].serialize_ok = serialize_ok,
                 ![w].fruit = Some(harvest(Unwrap(workers[w].segment),
                                           agg_harvest_ok, serialize_ok))]
    /\ UNCHANGED <<collector, segment_vars, merge_vars, encoder_vars,
                   factory_vars, order_vars, wait_vars>>

\* the fruits of the segments below n that are done, in the order of the
\* segments
RECURSIVE FinishedFruits(_)
FinishedFruits(n) ==
    IF n = 0 THEN <<>>
    ELSE IF IsSome(workers[n - 1].fruit)
    THEN Append(FinishedFruits(n - 1), Unwrap(workers[n - 1].fruit))
    ELSE FinishedFruits(n - 1)

\* merge_fruits on the fruits of the segments of the split, one or more, in
\* the order of the segments, once every segment that was started is done
MergeSegmentFruits ==
    /\ merged = None
    /\ \E w \in SegmentOrds : IsSome(workers[w].fruit)
    /\ \A w \in SegmentOrds :
          IF IsSome(workers[w].fruit)
          THEN ~IsPanic(Unwrap(workers[w].fruit))
          ELSE workers[w].segment = None
    /\ \E out \in MergeOutcomes :
          LET fruits == FinishedFruits(Cardinality(SegmentOrds))
          IN  /\ segment_fruits' = fruits
              /\ merged_leaf_response' =
                     Some(merge_fruits_leaf_response(collector, fruits, out))
              /\ merged' = Some(merge_fruits(collector, fruits, out))
    /\ UNCHANGED <<collector, segment_vars, aux_vars>>

NextParallel ==
    \/ \E w \in SegmentOrds : WorkerForSegment(w)
    \/ \E w \in SegmentOrds : WorkerCollect(w)
    \/ \E w \in SegmentOrds : WorkerHarvest(w)
    \/ MergeSegmentFruits

SpecParallel == InitParallel /\ [][NextParallel]_vars

(***************************************************************************)
(* The order of the heap items as a state machine: three items are         *)
(* compared with each other.                                               *)
(***************************************************************************)
\* the heap items compared: the least, a low and the greatest u64 key, each
\* with every doc id
HeapItems ==
    {PartialHitHeapItem(key, doc_id) : key \in {0, 1, U64_MAX}, doc_id \in DocIds}

InitOrder ==
    /\ collector = <<>>
    /\ SegmentIdle
    /\ MergeIdle
    /\ EncoderIdle
    /\ FactoryIdle
    /\ WorkersIdle
    /\ item_a \in HeapItems
    /\ item_b \in HeapItems
    /\ item_c \in HeapItems
    /\ orderings = None
    /\ WaitIdle

\* a.cmp(&b), b.cmp(&a), b.cmp(&c), a.cmp(&c) and a == b
CompareItems ==
    /\ orderings = None
    /\ orderings' = Some([a_b |-> cmp(item_a, item_b),
                          b_a |-> cmp(item_b, item_a),
                          b_c |-> cmp(item_b, item_c),
                          a_c |-> cmp(item_a, item_c),
                          a_eq_b |-> eq(item_a, item_b)])
    /\ UNCHANGED <<collector, segment_vars, merge_vars, encoder_vars,
                   factory_vars, workers, item_a, item_b, item_c, wait_vars>>

NextOrder == CompareItems

SpecOrder == InitOrder /\ [][NextOrder]_vars

(***************************************************************************)
(* The wait helpers of ClusterSandbox: each polls a count over the REST    *)
(* client until it is the required one, a bounded number of times.         *)
(***************************************************************************)
WaitHelpers ==
    {"wait_for_cluster_num_ready_nodes", "wait_for_indexing_pipelines",
     "wait_for_published_splits"}

\* `let max_num_attempts = 3;`
max_num_attempts == 3

\* the greatest count a request reports and a caller asks for
MaxCount == 2

\* what a request returns: the count, or an error
PollResults == {Ok(n) : n \in 0..MaxCount} \cup {Err("RequestError")}

\* the loop condition with <= for <
loop_condition_inclusive(attempts) == attempts <= max_num_attempts

\* `while num_attempts < max_num_attempts`
loop_condition(attempts) == attempts < max_num_attempts

\* the sleep of an iteration, in milliseconds: before every request of
\* wait_for_cluster_num_ready_nodes, and before every request but the first
\* of the other two
sleep_millis(name, attempts) ==
    IF name = "wait_for_cluster_num_ready_nodes"
    THEN 100 * (attempts + 1)
    ELSE IF attempts > 0 THEN 100 * attempts ELSE 0

\* one iteration of the loop after its sleep, given what the request
\* returned: how the call ends, if it ends here.  A failed request is
\* returned by `?` in wait_for_cluster_num_ready_nodes and unwrapped in the
\* other two.
loop_body(name, required, poll) ==
    IF ~poll.ok
    THEN IF name = "wait_for_cluster_num_ready_nodes"
         THEN Some(poll)
         ELSE Some(Panic("called Result::unwrap() on an Err value"))
    ELSE IF poll.val = required THEN Some(Ok(<<>>))
    ELSE None

\* what follows the loop
after_loop(name, attempts) ==
    IF name = "wait_for_published_splits"
    THEN Err("Too many attempts to get expected number of published splits.")
    ELSE IF attempts = max_num_attempts
    THEN IF name = "wait_for_indexing_pipelines"
         THEN Err("Too many attempts to get expected number of pipelines.")
         ELSE Err("Too many attempts to get expected num members.")
    ELSE Ok(<<>>)

InitWait ==
    /\ collector = <<>>
    /\ SegmentIdle
    /\ MergeIdle
    /\ EncoderIdle
    /\ FactoryIdle
    /\ WorkersIdle
    /\ OrderIdle
    /\ helper \in WaitHelpers
    /\ required_num \in 0..MaxCount
    /\ num_attempts = 0
    /\ polls = <<>>
    /\ slept_millis = 0
    /\ wait_result = None

\* one iteration of the loop: the sleep, the request, the comparison
LoopIteration ==
    /\ wait_result = None
    /\ loop_condition(num_attempts)
    /\ \E poll \in PollResults :
          LET ended == loop_body(helper, required_num, poll)
          IN  /\ polls' = Append(polls, poll)
              /\ slept_millis' = slept_millis + sleep_millis(helper, num_attempts)
              /\ wait_result' = ended
              /\ num_attempts' =
                    IF ended = None THEN num_attempts + 1 ELSE num_attempts
    /\ UNCHANGED <<collector, segment_vars, merge_vars, encoder_vars,
                   factory_vars, workers, order_vars, helper, required_num>>

\* the loop is left: the code after it
LoopExit ==
    /\ wait_result = None
    /\ ~loop_condition(num_attempts)
    /\ wait_result' = Some(after_loop(helper, num_attempts))
    /\ UNCHANGED <<collector, segment_vars, merge_vars, encoder_vars,
                   factory_vars, workers, order_vars, helper, required_num,
                   num_attempts, polls, slept_millis>>

NextWait == LoopIteration \/ LoopExit

SpecWait == InitWait /\ [][NextWait]_vars

\* every sleep and every request of a call comes to an end
FairSpecWait == SpecWait /\ WF_vars(NextWait)

(***************************************************************************)
(* Properties of the segment collector, checked under Spec.                *)
(***************************************************************************)
\* K, the capacity of a segment's heap and the length the merger sorts to
K == collector.start_offset + collector.max_hits
Seg == Unwrap(segment)

\* doc_id passes the timestamp filter of the segment (no filter: all pass)
PassedFilter(doc_id) ==
    \/ Seg.timestamp_filter_opt = None
    \/ doc_id \in Unwrap(Seg.timestamp_filter_opt).within

\* the collect calls so far whose doc passed the filter
AcceptedCalls == {i \in 1..Len(calls) : PassedFilter(calls[i].doc_id)}
AcceptedDocs == {calls[i].doc_id : i \in AcceptedCalls}

\* the ranking key of the document of a call
KeyOfCall(i) ==
    compute_sorting_field(Seg.sort_by, calls[i].doc_id, calls[i].score)

Count(seq, x) == Cardinality({i \in 1..Len(seq) : seq[i] = x})

Harvested == IsSome(fruit) /\ Unwrap(fruit).ok
HarvestedHits == Unwrap(fruit).val.partial_hits

\* C1: after any sequence of collect calls on a segment collector built by
\* for_segment, the heap holds at most K = start_offset + max_hits items.
C1_HeapCapacity ==
    IsSome(segment) => Len(Seg.hits) <= K

\* C1 witness: the heap is full and more documents were accepted than it
\* can hold.
C1_Witness_FullHeap ==
    /\ IsSome(segment)
    /\ K >= 1
    /\ Len(Seg.hits) = K
    /\ Seg.num_hits > K

\* C2: num_hits is the number of collect calls whose doc passed the
\* timestamp filter (all calls without a filter), whatever K is and whether
\* or not the doc entered the heap; the harvested fruit reports that number.
C2_HitCount ==
    IsSome(segment) =>
        /\ Seg.num_hits = Cardinality(AcceptedCalls)
        /\ Harvested => Unwrap(fruit).val.num_hits = Cardinality(AcceptedCalls)

\* C2 witness: a harvested segment with a filter that rejected a call, and
\* with more documents counted than the heap kept.
C2_Witness_CountedNotKept ==
    /\ Harvested
    /\ IsSome(Seg.timestamp_filter_opt)
    /\ Cardinality(AcceptedCalls) < Len(calls)
    /\ Seg.num_hits > Len(Seg.hits)
    /\ Unwrap(fruit).val.num_hits >= 2

\* C3: a collect call whose doc is rejected by the timestamp filter leaves
\* the segment collector as it was: num_hits, the heap and what the
\* aggregation sub-collector was given.
C3_RejectedLeavesState ==
    [][(Len(calls') = Len(calls) + 1
          /\ ~PassedFilter(calls'[Len(calls')].doc_id))
       => segment' = segment]_vars

\* C3 witness: the last call was rejected by a collector that had already
\* counted, kept and aggregated a document.
C3_Witness_RejectedCall ==
    /\ IsSome(segment)
    /\ Len(calls) >= 2
    /\ ~PassedFilter(calls[Len(calls)].doc_id)
    /\ Seg.num_hits >= 1
    /\ Len(Seg.hits) >= 1
    /\ IsSome(Seg.aggregation)
    /\ Len(Unwrap(Seg.aggregation).collected) >= 1

\* C4: harvest returns as partial_hits exactly the items of the heap, each
\* with the collector's split_id and segment_ord, by descending
\* sorting_field_value and, on equal values, by ascending doc_id.
C4_HarvestSortedHeap ==
    Harvested =>
        /\ Len(HarvestedHits) = Len(Seg.hits)
        /\ \A i \in 1..Len(HarvestedHits) :
              /\ HarvestedHits[i].split_id = collector.split_id
              /\ HarvestedHits[i].segment_ord = Seg.segment_ord
              /\ Cardinality({j \in 1..Len(HarvestedHits) :
                     /\ HarvestedHits[j].sorting_field_value
                            = Seg.hits[i].sorting_field_value
                     /\ HarvestedHits[j].doc_id = Seg.hits[i].doc_id})
                 = Count(Seg.hits, Seg.hits[i])
        /\ \A i, j \in 1..Len(HarvestedHits) :
              i < j =>
                 \/ HarvestedHits[i].sorting_field_value
                        > HarvestedHits[j].sorting_field_value
                 \/ /\ HarvestedHits[i].sorting_field_value
                           = HarvestedHits[j].sorting_field_value
                    /\ HarvestedHits[i].doc_id < HarvestedHits[j].doc_id

\* C4 witness: three harvested hits, the first with a greater key than the
\* other two, which tie.
C4_Witness_ThreeHitsWithTie ==
    /\ Harvested
    /\ Len(HarvestedHits) = 3
    /\ HarvestedHits[1].sorting_field_value
           > HarvestedHits[2].sorting_field_value
    /\ HarvestedHits[2].sorting_field_value
           = HarvestedHits[3].sorting_field_value

\* the k smallest doc ids of a set
SmallestDocIds(docs, k) ==
    {d \in docs : Cardinality({e \in docs : e < d}) < k}

\* C9 (as claimed): when all documents fed to a segment collector encode to
\* the same key, the documents harvested are the K smallest doc ids fed,
\* whatever the order of the collect calls.
C9_TieKeepsSmallestDocIds ==
    (Harvested /\ \A i, j \in AcceptedCalls : KeyOfCall(i) = KeyOfCall(j))
    => {HarvestedHits[i].doc_id : i \in 1..Len(HarvestedHits)}
           = SmallestDocIds(AcceptedDocs, K)

\* C10 (as claimed): of two heap items with equal sorting_field_value the
\* one with the smaller doc_id compares as Greater.
C10_TieSmallerDocIdIsGreater ==
    IsSome(segment) =>
        \A i, j \in 1..Len(Seg.hits) :
            (/\ Seg.hits[i].sorting_field_value = Seg.hits[j].sorting_field_value
             /\ Seg.hits[i].doc_id < Seg.hits[j].doc_id)
            => cmp(Seg.hits[i], Seg.hits[j]) = "Greater"

\* C10 (amended): of two heap items with equal sorting_field_value the one
\* with the smaller doc_id compares as Less, and the one with the larger
\* doc_id as Greater.
C10_TieSmallerDocIdIsLess ==
    IsSome(segment) =>
        \A i, j \in 1..Len(Seg.hits) :
            (/\ Seg.hits[i].sorting_field_value = Seg.hits[j].sorting_field_value
             /\ Seg.hits[i].doc_id < Seg.hits[j].doc_id)
            => /\ cmp(Seg.hits[i], Seg.hits[j]) = "Less"
               /\ cmp(Seg.hits[j], Seg.hits[i]) = "Greater"

\* C10 witness: the heap holds two items with the same key.
C10_Witness_TiedItems ==
    /\ IsSome(segment)
    /\ \E i, j \in 1..Len(Seg.hits) :
          /\ Seg.hits[i].sorting_field_value = Seg.hits[j].sorting_field_value
          /\ Seg.hits[i].doc_id < Seg.hits[j].doc_id

\* C11: of two heap items the one with the lower sorting_field_value
\* compares as Greater whatever the doc ids, so the head of the (max-)heap
\* is an item with the lowest key; cmp({key 1, doc 1}, {key 2, doc 1}) is
\* Greater.
C11_LowerKeyIsGreater ==
    /\ cmp(PartialHitHeapItem(1, 1), PartialHitHeapItem(2, 1)) = "Greater"
    /\ IsSome(segment) =>
          /\ \A i, j \in 1..Len(Seg.hits) :
                Seg.hits[i].sorting_field_value < Seg.hits[j].sorting_field_value
                => /\ cmp(Seg.hits[i], Seg.hits[j]) = "Greater"
                   /\ cmp(Seg.hits[j], Seg.hits[i]) = "Less"
          /\ \A i \in 1..Len(Seg.hits) :
                Unwrap(peek(Seg.hits)).sorting_field_value
                    <= Seg.hits[i].sorting_field_value

\* C11 witness: a heap of three items with three keys whose head, the
\* lowest key, has the smallest doc id of the three.
C11_Witness_HeadHasLowestKey ==
    /\ IsSome(segment)
    /\ Len(Seg.hits) = 3
    /\ \A i \in 2..3 :
          /\ Seg.hits[1].sorting_field_value < Seg.hits[i].sorting_field_value
          /\ Seg.hits[1].doc_id < Seg.hits[i].doc_id
    /\ Seg.hits[2].sorting_field_value # Seg.hits[3].sorting_field_value

\* C14: every fruit harvest returns has failed_splits empty and
\* num_attempted_splits equal to 1, whatever collect calls came before it
\* (none included).
C14_HarvestOneAttemptedSplit ==
    Harvested =>
        /\ Unwrap(fruit).val.failed_splits = <<>>
        /\ Unwrap(fruit).val.num_attempted_splits = 1

\* C14 witness: a segment harvested after two counted documents, one of
\* which the heap did not keep.
C14_Witness_HarvestAfterCalls ==
    /\ Harvested
    /\ Seg.num_hits = 2
    /\ Len(HarvestedHits) = 1
    /\ Unwrap(fruit).val.num_attempted_splits = 1

\* the value of a doc in the sort column of the segment
FieldVal(doc_id) == first(Seg.sort_by.sort_column, doc_id)
\* the calls so far whose doc has a value in the sort column
CallsWithValue == {i \in 1..Len(calls) : IsSome(FieldVal(calls[i].doc_id))}

\* C17: for documents that both have a value in the sort column, under
\* FastField Desc val(a) < val(b) implies key(a) < key(b); under FastField
\* Asc the key is u64::MAX - val, within the u64 range, so val(a) < val(b)
\* implies key(a) > key(b), and the hits are harvested smallest value
\* first: the values 10, 5, 7 come back in the order 5, 7, 10.
C17_FastFieldKeyMonotone ==
    (IsSome(segment) /\ Seg.sort_by.kind = "FastField") =>
        /\ \A i, j \in CallsWithValue :
              LET val_a == Unwrap(FieldVal(calls[i].doc_id))
                  val_b == Unwrap(FieldVal(calls[j].doc_id))
              IN  val_a < val_b =>
                     IF Seg.sort_by.order = "Desc"
                     THEN KeyOfCall(i) < KeyOfCall(j)
                     ELSE /\ KeyOfCall(i) = U64_MAX - val_a
                          /\ KeyOfCall(i) \in 0..U64_MAX
                          /\ KeyOfCall(i) > KeyOfCall(j)
        /\ (Harvested /\ Seg.sort_by.order = "Asc") =>
              \A i, j \in 1..Len(HarvestedHits) :
                 (/\ i < j
                  /\ IsSome(FieldVal(HarvestedHits[i].doc_id))
                  /\ IsSome(FieldVal(HarvestedHits[j].doc_id)))
                 => Unwrap(FieldVal(HarvestedHits[i].doc_id))
                        <= Unwrap(FieldVal(HarvestedHits[j].doc_id))
        /\ (/\ Harvested
            /\ Seg.sort_by.order = "Asc"
            /\ Seg.sort_by.sort_column = AscendingSortColumn
            /\ [i \in 1..Len(calls) |-> calls[i].doc_id] = <<0, 1, 2>>
            /\ Seg.timestamp_filter_opt = None
            /\ K >= 3)
           => [i \in 1..Len(HarvestedHits) |->
                  Unwrap(FieldVal(HarvestedHits[i].doc_id))] = <<5, 7, 10>>

\* C17 witness: the scenario: docs with the values 10, 5, 7 collected in
\* that order under FastField Asc and harvested.
C17_Witness_AscendingSortScenario ==
    /\ Harvested
    /\ Seg.sort_by.kind = "FastField"
    /\ Seg.sort_by.order = "Asc"
    /\ Seg.sort_by.sort_column = AscendingSortColumn
    /\ [i \in 1..Len(calls) |-> calls[i].doc_id] = <<0, 1, 2>>
    /\ Len(HarvestedHits) = 3
    /\ HarvestedHits[1].sorting_field_value = U64_MAX - 5

\* C16: f32_to_u64 preserves the order of all f32 values that are neither
\* NaN nor negative zero, subnormals, negative numbers and infinities
\* included: a < b if and only if f32_to_u64(a) < f32_to_u64(b).
C16_F32ToU64PreservesOrder ==
    (/\ IsSome(encoded)
     /\ ~f32_is_nan(value_a) /\ ~f32_is_negative_zero(value_a)
     /\ ~f32_is_nan(value_b) /\ ~f32_is_negative_zero(value_b))
    => (f32_lt(value_a, value_b) <=> Unwrap(encoded)[1] < Unwrap(encoded)[2])

\* C16 witness: negative infinity and a negative subnormal were encoded,
\* in that order of the encodings.
C16_Witness_InfinityBelowSubnormal ==
    /\ IsSome(encoded)
    /\ value_a = U32_MAX - 7
    /\ value_b = SIGN_BIT + 1
    /\ f32_lt(value_a, value_b)
    /\ Unwrap(encoded)[1] < Unwrap(encoded)[2]

(***************************************************************************)
(* Properties of the leaf merger, checked under SpecMerge.                 *)
(***************************************************************************)
AllFruitsOk == \A i \in 1..Len(segment_fruits) : segment_fruits[i].ok
Merged == IsSome(merged) /\ Unwrap(merged).ok
MergedHits == Unwrap(merged).val.partial_hits
\* the hits merge_leaf_responses selected, before the offset is dropped
TopHits == Unwrap(merged_leaf_response).val.partial_hits

\* the places <<fruit, position>> of the input partial hits; their number
InputPlaces ==
    UNION {{<<i, j>> : j \in 1..Len(segment_fruits[i].val.partial_hits)} :
              i \in 1..Len(segment_fruits)}
InputHit(place) == segment_fruits[place[1]].val.partial_hits[place[2]]
CountInput(hit) == Cardinality({pl \in InputPlaces : InputHit(pl) = hit})

\* left ranks strictly before right: key descending, then split_id,
\* segment_ord and doc_id ascending
RanksBefore(left, right) ==
    \/ left.sorting_field_value > right.sorting_field_value
    \/ /\ left.sorting_field_value = right.sorting_field_value
       /\ \/ StrRank(left.split_id) < StrRank(right.split_id)
          \/ /\ left.split_id = right.split_id
             /\ \/ left.segment_ord < right.segment_ord
                \/ /\ left.segment_ord = right.segment_ord
                   /\ left.doc_id < right.doc_id

\* C5: merging two or more fruits selects, before the offset is dropped,
\* the first K elements of the multiset union of the input partial hits
\* sorted by (key descending, split_id, segment_ord, doc_id ascending), in
\* that order; on equal keys the smaller split_id wins.
C5_MergeSelectsTopK ==
    (Merged /\ Len(segment_fruits) >= 2) =>
        /\ Len(TopHits) = Min(K, Cardinality(InputPlaces))
        /\ \A i, j \in 1..Len(TopHits) :
              i < j => ~RanksBefore(TopHits[j], TopHits[i])
        /\ \A pl \in InputPlaces :
              LET hit == InputHit(pl)
              IN  /\ Count(TopHits, hit) <= CountInput(hit)
                  /\ Count(TopHits, hit) < CountInput(hit)
                        => \A i \in 1..Len(TopHits) :
                              ~RanksBefore(hit, TopHits[i])
        /\ \A i \in 1..Len(TopHits) : CountInput(TopHits[i]) >= 1

\* C5 witness: a merge of two fruits with more hits than K whose hits tie
\* on the key: the hit of the smaller split_id is selected, the other not.
C5_Witness_SplitIdBreaksTie ==
    /\ Merged
    /\ Len(segment_fruits) = 2
    /\ K >= 1
    /\ Cardinality(InputPlaces) > K
    /\ \E p, q \in InputPlaces :
          /\ InputHit(p).sorting_field_value = InputHit(q).sorting_field_value
          /\ StrRank(InputHit(p).split_id) < StrRank(InputHit(q).split_id)
          /\ Count(TopHits, InputHit(p)) = 1
          /\ Count(TopHits, InputHit(q)) = 0

\* C6 (as claimed): merge_fruits of a list of exactly one successful fruit
\* r returns r unchanged, for every start_offset and max_hits.
C6_SingleFruitUnchanged ==
    (IsSome(merged) /\ Len(segment_fruits) = 1 /\ segment_fruits[1].ok)
    => merged = Some(segment_fruits[1])

\* C6 (amended): merge_fruits of a list of exactly one successful fruit r
\* returns r with the first min(start_offset, len) of its partial hits
\* removed and nothing else changed: the hits are neither sorted again nor
\* cut to K, and r comes back unchanged when start_offset is 0.
C6_SingleFruitLosesOffsetOnly ==
    (IsSome(merged) /\ Len(segment_fruits) = 1 /\ segment_fruits[1].ok)
    => LET r == segment_fruits[1].val
           dropped == Min(collector.start_offset, Len(r.partial_hits))
       IN  /\ Merged
           /\ Unwrap(merged).val =
                  [r EXCEPT !.partial_hits =
                      SubSeq(r.partial_hits, dropped + 1, Len(r.partial_hits))]
           /\ collector.start_offset = 0 => Unwrap(merged).val = r

\* C6 witness: one fruit with two hits, the worse first, merged with
\* start_offset = 1 and K = 1: one hit is left.
C6_Witness_SingleFruitOffset ==
    /\ Merged
    /\ Len(segment_fruits) = 1
    /\ collector.start_offset = 1
    /\ collector.max_hits = 0
    /\ Len(segment_fruits[1].val.partial_hits) = 2
    /\ RanksBefore(segment_fruits[1].val.partial_hits[2],
                   segment_fruits[1].val.partial_hits[1])
    /\ Len(MergedHits) = 1

\* C7: merge_fruits over two or more successful fruits returns the top-K
\* list without its first min(start_offset, len) elements, the rest in the
\* same order; start_offset = 2, max_hits = 2 and five fruits of one hit
\* with keys 5, 4, 3, 2, 1 give the keys 3, 2.
C7_MergeDropsOffset ==
    (Merged /\ Len(segment_fruits) >= 2) =>
        /\ Len(TopHits) <= K
        /\ MergedHits =
               SubSeq(TopHits, Min(collector.start_offset, Len(TopHits)) + 1,
                      Len(TopHits))
        /\ (/\ segment_fruits = OffsetDropFruits
            /\ collector.start_offset = 2
            /\ collector.max_hits = 2)
           => [i \in 1..Len(MergedHits) |-> MergedHits[i].sorting_field_value]
                  = <<3, 2>>

\* C7 witness: the five fruits of the offset-drop scenario merged with
\* start_offset = 2 and max_hits = 2.
C7_Witness_OffsetDropScenario ==
    /\ Merged
    /\ segment_fruits = OffsetDropFruits
    /\ collector.start_offset = 2
    /\ collector.max_hits = 2
    /\ Len(TopHits) = 4
    /\ Len(MergedHits) = 2

\* C8 (as claimed): merge_fruits drops exactly min(start_offset, K) leading
\* hits of the top-K list, for every list of input fruits.
C8_DropsMinOffsetK ==
    Merged => Len(TopHits) - Len(MergedHits) = Min(collector.start_offset, K)

\* C8 (amended): merge_fruits drops exactly min(start_offset, len) leading
\* hits, len being the number of hits merge_leaf_responses returned, for
\* every list of input fruits.
C8_DropsMinOffsetLen ==
    Merged =>
        LET dropped == Len(TopHits) - Len(MergedHits)
        IN  /\ dropped = Min(collector.start_offset, Len(TopHits))
            /\ \A i \in 1..Len(MergedHits) : MergedHits[i] = TopHits[i + dropped]

\* C8 witness: the input holds one hit, fewer than start_offset = 2; that
\* hit is dropped.
C8_Witness_FewerHitsThanOffset ==
    /\ Merged
    /\ collector.start_offset = 2
    /\ Cardinality(InputPlaces) = 1
    /\ Len(TopHits) = 1
    /\ Len(MergedHits) = 0

\* the position of the first error of the input list
FirstError ==
    CHOOSE i \in 1..Len(segment_fruits) :
        /\ ~segment_fruits[i].ok
        /\ \A j \in 1..(i - 1) : segment_fruits[j].ok

\* C12: when at least one element of the input list is an error,
\* merge_fruits returns the first error in input order and no response,
\* for every list length and whatever the successful fruits hold.
C12_FirstErrorReturned ==
    (IsSome(merged) /\ ~AllFruitsOk)
    => /\ ~Unwrap(merged).ok
       /\ merged = Some(segment_fruits[FirstError])
       /\ merged_leaf_response = merged

\* C12 witness: two different errors were merged, or an error that follows
\* a fruit whose intermediate does not deserialize; the error of the list
\* came back.
C12_Witness_TwoErrors ==
    /\ IsSome(merged)
    /\ Len(segment_fruits) = 2
    /\ ~segment_fruits[2].ok
    /\ segment_fruits[1] # segment_fruits[2]
    /\ \/ ~segment_fruits[1].ok
       \/ /\ IsSome(collector.aggregation)
          /\ segment_fruits[1] = Ok(AggregatedFruit("garbage", <<>>))
    /\ ~Unwrap(merged).ok

\* the sum of a field over the first n input fruits
RECURSIVE InputSum(_, _)
InputSum(field, n) ==
    IF n = 0 THEN 0
    ELSE InputSum(field, n - 1) + segment_fruits[n].val[field]

\* C13: the response of a merge of successful fruits has num_hits and
\* num_attempted_splits equal to the sums over the inputs; num_hits is
\* neither capped by K nor reduced by start_offset.
C13_CountersAreSums ==
    Merged =>
        /\ Unwrap(merged).val.num_hits
               = InputSum("num_hits", Len(segment_fruits))
        /\ Unwrap(merged).val.num_attempted_splits
               = InputSum("num_attempted_splits", Len(segment_fruits))

\* C13 witness: two fruits that counted four hits together, merged with
\* K = 1 and start_offset = 1: no hit is left and num_hits is 4.
C13_Witness_SumAboveK ==
    /\ Merged
    /\ Len(segment_fruits) = 2
    /\ collector.start_offset = 1
    /\ collector.max_hits = 0
    /\ segment_fruits[1].val.num_hits = 2
    /\ segment_fruits[2].val.num_hits = 2
    /\ Unwrap(merged).val.num_hits = 4
    /\ Unwrap(merged).val.num_attempted_splits = 4
    /\ MergedHits = <<>>

\* every input fruit is a response without an intermediate
AllIntermediatesAbsent ==
    \A i \in 1..Len(segment_fruits) :
        /\ segment_fruits[i].ok
        /\ segment_fruits[i].val.intermediate_aggregation_result = None

MergedIntermediate == Unwrap(merged).val.intermediate_aggregation_result

\* C15 (as claimed): when every input fruit has an absent intermediate, the
\* merged intermediate is absent, for both aggregation families and any
\* number of fruits, zero included.
C15_AbsentStaysAbsent ==
    (Merged /\ AllIntermediatesAbsent) => MergedIntermediate = None

\* C15 (amended): when every input fruit has an absent intermediate, the
\* merged intermediate is absent without an aggregation, with the generic
\* family and for a single fruit; with the trace-id family and zero or two
\* and more fruits it is present, the serialized merge of no fruits.
C15_AbsentUnlessTraceIdMerge ==
    (Merged /\ AllIntermediatesAbsent) =>
        IF /\ collector.aggregation = Some("FindTraceIdsAggregation")
           /\ Len(segment_fruits) # 1
        THEN /\ IsSome(MergedIntermediate)
             /\ from_bytes("FindTraceIdsAggregation",
                           Unwrap(MergedIntermediate)) = Ok(<<>>)
        ELSE MergedIntermediate = None

\* C15 witness: two fruits without intermediates merged by a collector
\* with the generic family.
C15_Witness_GenericAllAbsent ==
    /\ Merged
    /\ AllIntermediatesAbsent
    /\ Len(segment_fruits) = 2
    /\ collector.aggregation = Some("TantivyAggregations")
    /\ MergedIntermediate = None

(***************************************************************************)
(* Properties of the collector factory, checked under SpecFactory.         *)
(***************************************************************************)
Made == IsSome(collector_result) /\ Unwrap(collector_result).ok
MadeCollector == Unwrap(collector_result).val
Request == factory_args.search_request

\* the order the request asks for: Asc for 0, Desc for 1, for an absent
\* sort_order and for every other integer
AskedOrder == IF Request.sort_order = Some(0) THEN "Asc" ELSE "Desc"

\* C18: make_collector_for_split gives sort_by DocId without a
\* sort_by_field (sort_order ignored), Score{order} for "_score" and
\* FastField{field_name, order} for any other field name; order is the
\* request's sort_order when recognised, Desc when absent or unrecognised.
C18_SortByOfRequest ==
    Made =>
        IF Request.sort_by_field = None
        THEN MadeCollector.sort_by = [kind |-> "DocId"]
        ELSE IF Request.sort_by_field = Some("_score")
        THEN MadeCollector.sort_by = [kind |-> "Score", order |-> AskedOrder]
        ELSE MadeCollector.sort_by =
                 [kind |-> "FastField",
                  field_name |-> Unwrap(Request.sort_by_field),
                  order |-> AskedOrder]

\* C18 witness: a collector made for a request that sorts by a field with
\* an unrecognised sort_order: the order is Desc.
C18_Witness_UnrecognisedOrder ==
    /\ Made
    /\ Request.sort_by_field = Some("price")
    /\ Request.sort_order = Some(2)
    /\ MadeCollector.sort_by.order = "Desc"

\* C19: requires_scoring() is true exactly for sort_by Score;
\* warmup_info().field_norms equals requires_scoring(); the warmup fast
\* fields are the sort field (FastField only), the aggregation's fast
\* fields (with an aggregation) and the timestamp field (with a timestamp
\* filter builder), and no other.
C19_WarmupOfCollector ==
    IsSome(warmup_result) =>
        LET warmup == Unwrap(warmup_result)
            names == warmup.warmup_info.fast_field_names
        IN  /\ warmup.requires_scoring <=> MadeCollector.sort_by.kind = "Score"
            /\ warmup.warmup_info.field_norms = warmup.requires_scoring
            /\ \A name \in names \cup {"price", "timestamp", "trace_id",
                                         "quantity", "_score"} :
                  name \in names <=>
                     \/ /\ MadeCollector.sort_by.kind = "FastField"
                        /\ name = MadeCollector.sort_by.field_name
                     \/ /\ IsSome(MadeCollector.aggregation)
                        /\ name \in aggregation_fast_field_names(
                                        Unwrap(MadeCollector.aggregation))
                     \/ /\ IsSome(MadeCollector.timestamp_filter_builder_opt)
                        /\ name = Unwrap(MadeCollector
                                  .timestamp_filter_builder_opt)
                                  .timestamp_field_name

\* C19 witness: a collector sorted by score with a generic aggregation and
\* a timestamp filter builder: scoring is required and three fast fields
\* are warmed up.
C19_Witness_ScoreWithAggregation ==
    /\ IsSome(warmup_result)
    /\ MadeCollector.sort_by.kind = "Score"
    /\ MadeCollector.aggregation = Some("TantivyAggregations")
    /\ IsSome(MadeCollector.timestamp_filter_builder_opt)
    /\ Unwrap(warmup_result).requires_scoring
    /\ Unwrap(warmup_result).warmup_info.fast_field_names
           = {"price", "quantity", "timestamp"}

(***************************************************************************)
(* Properties of the parallel segments, checked under SpecParallel.        *)
(***************************************************************************)
\* the segment collector after the first n calls of a list, made one after
\* the other on a collector nobody else uses
RECURSIVE collect_alone(_, _, _)
collect_alone(self, call_list, n) ==
    IF n = 0 THEN self
    ELSE collect(collect_alone(self, call_list, n - 1),
                 call_list[n].doc_id, call_list[n].score)

\* the fruit of segment w when that segment is run alone: for_segment with
\* the arguments of w, the calls of w in their order, harvest
FruitAlone(w) ==
    IF workers[w].args = None THEN Err("SegmentIoError")
    ELSE LET args == Unwrap(workers[w].args)
             fresh == for_segment(collector, w, args.sort_column_opt,
                                  args.built_filter)
         IN  harvest(collect_alone(fresh, workers[w].calls,
                                   Len(workers[w].calls)),
                     workers[w].harvest_ok, workers[w].serialize_ok)

\* the fruits, each of its segment run alone, of the segments below n that
\* are done
RECURSIVE FruitsAlone(_)
FruitsAlone(n) ==
    IF n = 0 THEN <<>>
    ELSE IF IsSome(workers[n - 1].fruit)
    THEN Append(FruitsAlone(n - 1), FruitAlone(n - 1))
    ELSE FruitsAlone(n - 1)

IsInternalError(result) ==
    /\ ~result.ok
    /\ "err" \in DOMAIN result
    /\ result.err \in InternalErrors

\* C21: a failure to serialize the aggregation intermediate in harvest is
\* reported as an internal error value with a message, and harvest produces
\* no response: the fruit of a harvest whose serialization failed is such an
\* error value.
C21_SerializeFailureIsInternalError ==
    (/\ IsSome(segment)
     /\ IsSome(fruit)
     /\ IsSome(Seg.aggregation)
     /\ Unwrap(fruit) = harvest(Seg, TRUE, FALSE))
    => IsInternalError(Unwrap(fruit))

\* C21, merge side: a merge that fails to deserialize or to serialize an
\* intermediate returns an internal error value, and the merge collector
\* then returns that same error instead of a response.
C21_MergeFailureIsInternalError ==
    (/\ IsSome(merged_leaf_response)
     /\ IsSome(collector.aggregation)
     /\ \A i \in 1..Len(segment_fruits) : segment_fruits[i].ok
     /\ Len(segment_fruits) >= 2)
    => LET fruits == deserialize_fruits(Unwrap(collector.aggregation),
                                       collect_results(segment_fruits).val)
           sent == merge_fruits_leaf_response(collector, segment_fruits,
                                              "serialize_error")
           failed == \/ ~fruits.ok
                     \/ /\ fruits.val # <<>>
                        /\ Unwrap(merged_leaf_response) = sent
       IN  failed => /\ IsInternalError(Unwrap(merged_leaf_response))
                     /\ merged = merged_leaf_response

(***************************************************************************)
(* The full heap, checked under Spec.                                      *)
(***************************************************************************)
\* the vector is in heap order: no item is greater in cmp than its parent
HeapOrdered(data) ==
    \A pos \in 1..(Len(data) - 1) : ge(at(data, (pos - 1) \div 2), at(data, pos))

\* the items of both vectors, for counting
ItemsOf(data) == {data[i] : i \in 1..Len(data)}

\* the call a Collect step adds, and the heap item of its document
LastCall == calls[Len(calls)]
LastItem ==
    PartialHitHeapItem(KeyOfCall(Len(calls)), LastCall.doc_id)

C22_Witness_TieDiscarded ==
    /\ IsSome(segment)
    /\ K = 2
    /\ Len(calls) = 3
    /\ Seg.num_hits = 3
    /\ LastItem \notin ItemsOf(Seg.hits)
    /\ LastItem.sorting_field_value = Seg.hits[1].sorting_field_value

(***************************************************************************)
(* What the aggregation sub-collector is given, checked under Spec.        *)
(***************************************************************************)
\* the (doc_id, score) pairs of the accepted calls, in the order of the calls
RECURSIVE AcceptedPairs(_)
AcceptedPairs(n) ==
    IF n = 0 THEN <<>>
    ELSE IF PassedFilter(calls[n].doc_id)
    THEN Append(AcceptedPairs(n - 1), <<calls[n].doc_id, calls[n].score>>)
    ELSE AcceptedPairs(n - 1)

\* C23: the aggregation sub-collector of a segment is given
\* collect(doc_id, score) once for every document the timestamp filter
\* accepted, in the order of the collect calls, whether or not the heap kept
\* the document, and nothing for a rejected document.
C23_AggregationGetsAcceptedInOrder ==
    (IsSome(segment) /\ IsSome(Seg.aggregation)) =>
        Unwrap(Seg.aggregation).collected = AcceptedPairs(Len(calls))

\* C23 witness: with a filter and an aggregation, two documents were
\* accepted and given to the aggregation, one was rejected, and the full
\* heap of one item discarded an accepted document.
C23_Witness_DiscardedStillAggregated ==
    /\ IsSome(segment)
    /\ IsSome(Seg.aggregation)
    /\ IsSome(Seg.timestamp_filter_opt)
    /\ K = 1
    /\ Len(calls) = 3
    /\ Cardinality(AcceptedCalls) = 2
    /\ Len(Unwrap(Seg.aggregation).collected) = 2
    /\ Len(Seg.hits) = 1
    /\ calls[Len(calls)].doc_id \notin {Seg.hits[i].doc_id : i \in 1..Len(Seg.hits)}
    /\ PassedFilter(calls[Len(calls)].doc_id)

(***************************************************************************)
(* The fold of the generic aggregation family, checked under SpecMerge.    *)
(***************************************************************************)
\* the intermediates that are present among the first n input fruits, as
\* deserialized, in input order
RECURSIVE PresentIntermediates(_)
PresentIntermediates(n) ==
    IF n = 0 THEN <<>>
    ELSE LET bytes_opt == segment_fruits[n].val.intermediate_aggregation_result
         IN  IF IsSome(bytes_opt)
             THEN Append(PresentIntermediates(n - 1), Unwrap(bytes_opt).payload)
             ELSE PresentIntermediates(n - 1)

\* ((p[1] . p[2]) . p[3]) . ... : the last one is merged into the fold of
\* those before it
RECURSIVE LeftFold(_)
LeftFold(p) ==
    IF Len(p) = 1 THEN p[1]
    ELSE intermediate_merge_fruits(LeftFold(SubSeq(p, 1, Len(p) - 1)),
                                   p[Len(p)])

\* C24: with the generic aggregation family, the merge of two or more fruits
\* combines the present intermediates in input order as a left fold: it
\* starts from the first present one and merges each later present one into
\* it in list order; absent intermediates are skipped and the inputs are
\* not reordered.
C24_GenericMergeIsLeftFold ==
    (/\ Merged
     /\ collector.aggregation = Some("TantivyAggregations")
     /\ Len(segment_fruits) >= 2
     /\ PresentIntermediates(Len(segment_fruits)) # <<>>)
    => MergedIntermediate =
          Some(to_allocvec("TantivyAggregations",
                           LeftFold(PresentIntermediates(Len(segment_fruits)))))

\* C24 witness: the fold scenario merged: three present intermediates of
\* different content around an absent one.
C24_Witness_FoldScenarioMerged ==
    /\ Merged
    /\ collector.aggregation = Some("TantivyAggregations")
    /\ segment_fruits = FoldFruits
    /\ Len(PresentIntermediates(4)) = 3
    /\ IsSome(MergedIntermediate)

(***************************************************************************)
(* The order of the heap items, checked under SpecOrder.                   *)
(***************************************************************************)
\* Ordering::reverse
reverse(ordering) ==
    IF ordering = "Less" THEN "Greater"
    ELSE IF ordering = "Greater" THEN "Less"
    ELSE "Equal"

\* C25: cmp is a total order on the (sorting_field_value, doc_id) pairs:
\* for all items a, b, c, cmp(a, b) is the reverse of cmp(b, a); a <= b and
\* b <= c give a <= c, and a < c if one of the two is strict; cmp(a, b) is
\* Equal if and only if a and b have the same key and the same doc_id; and
\* a == b holds exactly when cmp(a, b) is Equal.
C25_CmpIsTotalOrder ==
    IsSome(orderings) =>
        LET o == Unwrap(orderings)
        IN  /\ o.a_b = reverse(o.b_a)
            /\ (o.a_b # "Greater" /\ o.b_c # "Greater") => o.a_c # "Greater"
            /\ (o.a_b = "Less" /\ o.b_c # "Greater") => o.a_c = "Less"
            /\ (o.a_b # "Greater" /\ o.b_c = "Less") => o.a_c = "Less"
            /\ (o.a_b = "Equal") <=>
                  (/\ item_a.sorting_field_value = item_b.sorting_field_value
                   /\ item_a.doc_id = item_b.doc_id)
            /\ o.a_eq_b <=> (o.a_b = "Equal")

\* C25 witness: a is below b by the doc id alone, on the greatest key, b is
\* below c by the key, and a was found below c.
C25_Witness_TieThenKey ==
    /\ IsSome(orderings)
    /\ item_a.sorting_field_value = U64_MAX
    /\ item_b.sorting_field_value = U64_MAX
    /\ item_a.doc_id < item_b.doc_id
    /\ item_c.sorting_field_value = 0
    /\ Unwrap(orderings).a_b = "Less"
    /\ Unwrap(orderings).b_c = "Less"
    /\ Unwrap(orderings).a_c = "Less"
    /\ ~Unwrap(orderings).a_eq_b

(***************************************************************************)
(* Documents without a value in the sort column, checked under Spec.       *)
(***************************************************************************)
\* C26: a document without a value in the sort column, or of a segment
\* without the sort column, gets the key 0 under Desc and under Asc, so its
\* key is never above the key of a document that has a value: in the heap
\* it carries 0, and in the harvested hits it comes before a document with
\* a value only if that document's key is 0 as well.  A segment without
\* the column is collected like any other.
C26_MissingValueKeyIsZero ==
    (IsSome(segment) /\ Seg.sort_by.kind = "FastField") =>
        /\ \A i \in 1..Len(calls) :
              ~IsSome(FieldVal(calls[i].doc_id)) =>
                 /\ KeyOfCall(i) = 0
                 /\ \A j \in CallsWithValue : KeyOfCall(i) <= KeyOfCall(j)
        /\ \A i \in 1..Len(Seg.hits) :
              ~IsSome(FieldVal(Seg.hits[i].doc_id)) =>
                 Seg.hits[i].sorting_field_value = 0
        /\ Harvested =>
              \A i, j \in 1..Len(HarvestedHits) :
                 (/\ i < j
                  /\ ~IsSome(FieldVal(HarvestedHits[i].doc_id))
                  /\ IsSome(FieldVal(HarvestedHits[j].doc_id)))
                 => HarvestedHits[j].sorting_field_value = 0

\* C26 witness: under Asc a document without a value and one with the
\* value 2 were collected, the one without first, and harvested: the one
\* with the value comes first.
C26_Witness_MissingBelowValueAsc ==
    /\ Harvested
    /\ Seg.sort_by.kind = "FastField"
    /\ Seg.sort_by.order = "Asc"
    /\ Len(calls) = 2
    /\ calls[1].doc_id = 1
    /\ calls[2].doc_id = 2
    /\ FieldVal(1) = None
    /\ FieldVal(2) = Some(2)
    /\ Len(HarvestedHits) = 2
    /\ HarvestedHits[1].doc_id = 2
    /\ HarvestedHits[2].sorting_field_value = 0

\* C26 witness of the missing column: a segment without the sort column
\* was collected and harvested, every hit with the key 0.
C26_Witness_MissingColumn ==
    /\ Harvested
    /\ Seg.sort_by.kind = "FastField"
    /\ Seg.sort_by.sort_column = build_empty_column
    /\ Len(HarvestedHits) = 2
    /\ \A i \in 1..2 : HarvestedHits[i].sorting_field_value = 0

(***************************************************************************)
(* The keys the heap holds, checked under Spec.                            *)
(***************************************************************************)
\* how many of the accepted calls have the key, and how many a greater one
AcceptedWithKey(key) == Cardinality({i \in AcceptedCalls : KeyOfCall(i) = key})
AcceptedAboveKey(key) == Cardinality({i \in AcceptedCalls : KeyOfCall(i) > key})
\* how many items of the heap have the key
HeapWithKey(key) ==
    Cardinality({i \in 1..Len(Seg.hits) : Seg.hits[i].sorting_field_value = key})

\* how many times the key is among the m largest keys of the accepted calls
AmongLargest(key, m) ==
    Min(AcceptedWithKey(key), Max(m - AcceptedAboveKey(key), 0))

\* the doc ids of the calls and of the harvested hits, in order
CallDocIds == [i \in 1..Len(calls) |-> calls[i].doc_id]
HarvestedDocIds == [i \in 1..Len(HarvestedHits) |-> HarvestedHits[i].doc_id]

\* C28: after any sequence of collect calls, in any order of the doc ids,
\* the heap holds min(n, K) items, n being the number of accepted documents,
\* and its keys are, as a multiset, the min(n, K) largest keys of the
\* accepted documents.  With K = 2 and ByDocId, the doc ids 1, 3, 2 are
\* harvested as 3, 2 with num_hits = 3 (and 0, 2, 1 as 2, 1).
C28_HeapHoldsLargestKeys ==
    IsSome(segment) =>
        LET n == Cardinality(AcceptedCalls)
            m == Min(n, K)
        IN  /\ Len(Seg.hits) = m
            /\ \A i \in AcceptedCalls :
                  HeapWithKey(KeyOfCall(i)) = AmongLargest(KeyOfCall(i), m)
            /\ \A i \in 1..Len(Seg.hits) :
                  \E j \in AcceptedCalls :
                     KeyOfCall(j) = Seg.hits[i].sorting_field_value
            /\ (/\ Harvested
                /\ K = 2
                /\ Seg.sort_by.kind = "DocId"
                /\ Seg.timestamp_filter_opt = None)
               => /\ CallDocIds = <<1, 3, 2>> =>
                        /\ HarvestedDocIds = <<3, 2>>
                        /\ Unwrap(fruit).val.num_hits = 3
                  /\ CallDocIds = <<0, 2, 1>> =>
                        /\ HarvestedDocIds = <<2, 1>>
                        /\ Unwrap(fruit).val.num_hits = 3

\* C28 witness: K = 2, ByDocId, three documents fed with the greatest in
\* the middle, and harvested: the two greatest, greatest first, three
\* counted.
C28_Witness_TopTwoOfThree ==
    /\ Harvested
    /\ K = 2
    /\ Seg.sort_by.kind = "DocId"
    /\ Seg.timestamp_filter_opt = None
    /\ CallDocIds = <<0, 2, 1>>
    /\ HarvestedDocIds = <<2, 1>>
    /\ Unwrap(fruit).val.num_hits = 3

(***************************************************************************)
(* The collector that keeps no hit, checked under Spec.                    *)
(***************************************************************************)
\* C29: with start_offset + max_hits = 0 nothing is ever put in the heap
\* and collect goes through: every accepted document is counted in
\* num_hits and given to the aggregation, and harvest returns no partial
\* hit, with that count.
C29_ZeroCapacityCountsOnly ==
    (IsSome(segment) /\ K = 0) =>
        /\ Seg.hits = <<>>
        /\ Seg.num_hits = Cardinality(AcceptedCalls)
        /\ IsSome(Seg.aggregation) =>
              Unwrap(Seg.aggregation).collected = AcceptedPairs(Len(calls))
        /\ Harvested =>
              /\ HarvestedHits = <<>>
              /\ Unwrap(fruit).val.num_hits = Cardinality(AcceptedCalls)

\* C29 witness: K = 0, three calls of which two were accepted, counted and
\* given to the aggregation, and a harvest without hits.
C29_Witness_CountedWithoutHits ==
    /\ Harvested
    /\ K = 0
    /\ Len(calls) = 3
    /\ Cardinality(AcceptedCalls) = 2
    /\ IsSome(Seg.aggregation)
    /\ Len(Unwrap(Seg.aggregation).collected) = 2
    /\ HarvestedHits = <<>>
    /\ Unwrap(fruit).val.num_hits = 2

(***************************************************************************)
(* From the documents to the merged hits, checked under SpecParallel.      *)
(***************************************************************************)
\* the segments that were harvested
FinishedSegments == {w \in SegmentOrds : IsSome(workers[w].fruit)}

\* the documents of segment w that its timestamp filter accepted, each as
\* the hit it would make
AcceptedHitsOf(w) ==
    LET seg == Unwrap(workers[w].segment)
        worker_calls == workers[w].calls
    IN  {Hit(compute_sorting_field(seg.sort_by, worker_calls[i].doc_id,
                                   worker_calls[i].score),
             collector.split_id, w, worker_calls[i].doc_id) :
           i \in {j \in 1..Len(worker_calls) :
                     accept_document(seg, worker_calls[j].doc_id)}}

AllAcceptedHits == UNION {AcceptedHitsOf(w) : w \in FinishedSegments}

\* g comes before h by (key descending, split_id, segment_ord, doc_id)
ComesBefore(g, h) ==
    \/ g.sorting_field_value > h.sorting_field_value
    \/ /\ g.sorting_field_value = h.sorting_field_value
       /\ \/ StrRank(g.split_id) < StrRank(h.split_id)
          \/ /\ g.split_id = h.split_id
             /\ \/ g.segment_ord < h.segment_ord
                \/ /\ g.segment_ord = h.segment_ord
                   /\ g.doc_id < h.doc_id

\* the rank, from 0, of a hit among all accepted documents
RankOf(h) == Cardinality({g \in AllAcceptedHits : ComesBefore(g, h)})

\* C27: when the documents of every segment are collected in increasing
\* doc_id order and the segments differ in (split_id, segment_ord),
\* merge_fruits over the harvested fruits of one or more segments returns
\* the hits of rank start_offset up to start_offset + max_hits (exclusive)
\* among all accepted documents of all segments sorted by (key descending,
\* split_id, segment_ord, doc_id ascending): the truncation of every
\* segment to K loses no hit of the global top K.
C27_MergedHitsAreGlobalRanks ==
    (workers # <<>> /\ Merged) =>
        LET total == Cardinality(AllAcceptedHits)
        IN  /\ Len(MergedHits) =
                  Max(Min(K, total) - collector.start_offset, 0)
            /\ \A i \in 1..Len(MergedHits) :
                  /\ MergedHits[i] \in AllAcceptedHits
                  /\ RankOf(MergedHits[i]) = collector.start_offset + i - 1

\* C27 witness: two segments of three documents each, sorted by a fast
\* field with two documents of a segment tied, K = 2 of which the first
\* rank is dropped: the merge returns the hit of rank 1 out of six.
C27_Witness_TwoSegmentsWithTie ==
    /\ workers # <<>>
    /\ Merged
    /\ collector.sort_by.kind = "FastField"
    /\ collector.start_offset = 1
    /\ collector.max_hits = 1
    /\ FinishedSegments = SegmentOrds
    /\ Cardinality(AllAcceptedHits) = 6
    /\ \E g, h \in AcceptedHitsOf(0) :
          g # h /\ g.sorting_field_value = h.sorting_field_value
    /\ Len(MergedHits) = 1
    /\ RankOf(MergedHits[1]) = 1

\* C27 witness of a single segment: its fruit alone was merged.
C27_Witness_OneSegment ==
    /\ workers # <<>>
    /\ Merged
    /\ Cardinality(FinishedSegments) = 1
    /\ collector.start_offset = 1
    /\ Cardinality(AllAcceptedHits) = 3
    /\ Len(MergedHits) = 1

(***************************************************************************)
(* The order of the input fruits, checked under SpecMerge.                 *)
(***************************************************************************)
\* the orders the n input fruits may arrive in
FruitOrders(n) ==
    {p \in [1..n -> 1..n] : \A i, j \in 1..n : p[i] = p[j] => i = j}

\* the places <<fruit, position>> of the partial hits of the input
HitPlaces ==
    UNION {{<<i, j>> : j \in 1..Len(segment_fruits[i].val.partial_hits)} :
              i \in 1..Len(segment_fruits)}

HitAt(pl) == segment_fruits[pl[1]].val.partial_hits[pl[2]]

\* no two partial hits of the input have the same
\* (split_id, segment_ord, doc_id)
DistinctAddresses ==
    \A pl, ql \in HitPlaces :
        (/\ HitAt(pl).split_id = HitAt(ql).split_id
         /\ HitAt(pl).segment_ord = HitAt(ql).segment_ord
         /\ HitAt(pl).doc_id = HitAt(ql).doc_id) => pl = ql

\* C30: for two or more successful fruits whose partial hits have pairwise
\* distinct (split_id, segment_ord, doc_id), the merged response has the
\* same partial_hits and the same num_hits for every permutation of the
\* input list.
C30_MergeIgnoresFruitOrder ==
    (/\ workers = <<>>
     /\ Merged
     /\ Len(segment_fruits) >= 2
     /\ \A i \in 1..Len(segment_fruits) : segment_fruits[i].ok
     /\ DistinctAddresses)
    => \A p \in FruitOrders(Len(segment_fruits)) :
          LET permuted == [i \in 1..Len(segment_fruits) |-> segment_fruits[p[i]]]
              other == merge_fruits(collector, permuted, "ok")
          IN  /\ other.ok
              /\ other.val.partial_hits = MergedHits
              /\ other.val.num_hits = Unwrap(merged).val.num_hits

\* C30 witness: two different fruits of one hit each, tied on the key and
\* apart in the address, merged into two hits.
C30_Witness_TiedFruitsMerged ==
    /\ workers = <<>>
    /\ Merged
    /\ Len(segment_fruits) = 2
    /\ segment_fruits[1].ok
    /\ segment_fruits[2].ok
    /\ DistinctAddresses
    /\ Len(segment_fruits[1].val.partial_hits) = 1
    /\ Len(segment_fruits[2].val.partial_hits) = 1
    /\ segment_fruits[1].val.partial_hits[1].sorting_field_value
          = segment_fruits[2].val.partial_hits[1].sorting_field_value
    /\ StrRank(segment_fruits[1].val.partial_hits[1].split_id)
          > StrRank(segment_fruits[2].val.partial_hits[1].split_id)
    /\ Len(MergedHits) = 2
    /\ Unwrap(merged).val.num_hits >= 2

(***************************************************************************)
(* The length of the merged hits, checked under SpecMerge.                 *)
(***************************************************************************)
\* the partial hits of the response are at most K and sorted best first
WithinCapacityAndSorted(response) ==
    /\ Len(response.partial_hits) <= K
    /\ \A i, j \in 1..Len(response.partial_hits) :
          i < j => ~ComesBefore(response.partial_hits[j],
                                response.partial_hits[i])

\* the number of partial hits of the first n input fruits
RECURSIVE InputHitCount(_)
InputHitCount(n) ==
    IF n = 0 THEN 0
    ELSE InputHitCount(n - 1) + Len(segment_fruits[n].val.partial_hits)

\* C31: if every input fruit carries at most start_offset + max_hits
\* partial hits, sorted best first, the response of merge_fruits has at
\* most max_hits partial hits, for one input fruit and for more.
C31_MergedHitsAtMostMaxHits ==
    (/\ Merged
     /\ Len(segment_fruits) >= 1
     /\ \A i \in 1..Len(segment_fruits) :
           /\ segment_fruits[i].ok
           /\ WithinCapacityAndSorted(segment_fruits[i].val))
    => Len(MergedHits) <= collector.max_hits

\* C31 witness: two fruits within the capacity that carry more hits
\* together than the capacity were merged into max_hits hits, after an
\* offset was dropped.
C31_Witness_TruncatedToMaxHits ==
    /\ Merged
    /\ Len(segment_fruits) = 2
    /\ \A i \in 1..2 :
          /\ segment_fruits[i].ok
          /\ WithinCapacityAndSorted(segment_fruits[i].val)
    /\ InputHitCount(2) > K
    /\ collector.start_offset = 1
    /\ collector.max_hits = 1
    /\ Len(MergedHits) = 1

\* C31 witness of a single fruit: it filled the capacity and came out with
\* max_hits hits.
C31_Witness_SingleFruitFull ==
    /\ Merged
    /\ Len(segment_fruits) = 1
    /\ WithinCapacityAndSorted(segment_fruits[1].val)
    /\ Len(segment_fruits[1].val.partial_hits) = K
    /\ collector.start_offset = 1
    /\ Len(MergedHits) = collector.max_hits
    /\ collector.max_hits = 1

(***************************************************************************)
(* The wait helpers, checked under FairSpecWait.                           *)
(***************************************************************************)
\* the request of poll i returned the required count / returned an error
PollMatched(i) == polls[i].ok /\ polls[i].val = required_num
PollFailed(i) == ~polls[i].ok

WaitDone == IsSome(wait_result)
WaitResult == Unwrap(wait_result)
\* the call returned an error value
ReturnedError ==
    ~WaitResult.ok /\ ~IsPanic(WaitResult) /\ "err" \in DOMAIN WaitResult

TooManyAttempts ==
    {"Too many attempts to get expected num members.",
     "Too many attempts to get expected number of pipelines.",
     "Too many attempts to get expected number of published splits."}

\* C32 (as claimed): each wait helper makes at most 3 polls; it returns Ok
\* at the first poll whose count is the required one, never without such a
\* poll, and it returns an error after the third poll if no poll matched.
C32_OkOnMatchErrorAfterThree ==
    /\ Len(polls) <= max_num_attempts
    /\ WaitDone =>
          /\ WaitResult.ok =>
                /\ Len(polls) >= 1
                /\ PollMatched(Len(polls))
                /\ \A i \in 1..(Len(polls) - 1) : ~PollMatched(i)
          /\ (\E i \in 1..Len(polls) : PollMatched(i)) => WaitResult.ok
          /\ (\A i \in 1..Len(polls) : ~PollMatched(i)) =>
                /\ ReturnedError
                /\ Len(polls) = max_num_attempts

\* the state part of C32 (amended)
WaitOutcome ==
    /\ Len(polls) <= max_num_attempts
    /\ \A i \in 1..(Len(polls) - 1) : ~PollFailed(i) /\ ~PollMatched(i)
    /\ WaitDone =>
          /\ Len(polls) >= 1
          /\ IF PollMatched(Len(polls))
             THEN WaitResult = Ok(<<>>)
             ELSE IF PollFailed(Len(polls))
             THEN IF helper = "wait_for_cluster_num_ready_nodes"
                  THEN ReturnedError /\ WaitResult = polls[Len(polls)]
                  ELSE IsPanic(WaitResult)
             ELSE /\ Len(polls) = max_num_attempts
                  /\ ReturnedError
                  /\ WaitResult.err \in TooManyAttempts

\* C32 (amended): provided every sleep and request comes to an end, each
\* wait helper ends after at most 3 polls.  It returns Ok at the first poll
\* whose count is the required one and never without such a poll; it
\* returns the too-many-attempts error after a third poll when the three
\* requests succeeded without a match; and a request that fails ends the
\* call at once: wait_for_cluster_num_ready_nodes returns the request's
\* error, the other two helpers panic.
C32_EndsWithinThreePolls ==
    []WaitOutcome /\ <>WaitDone

\* C32 witness: the second request of wait_for_published_splits failed
\* after a first count that did not match, and the call panicked.
C32_Witness_FailedRequestPanics ==
    /\ WaitDone
    /\ helper = "wait_for_published_splits"
    /\ Len(polls) = 2
    /\ polls[1].ok
    /\ ~PollMatched(1)
    /\ PollFailed(2)
    /\ IsPanic(WaitResult)
    /\ slept_millis = 100

\* C32 witness of the three polls: no request failed, none matched, and
\* the error was returned after the third.
C32_Witness_ThreePollsNoMatch ==
    /\ WaitDone
    /\ helper = "wait_for_cluster_num_ready_nodes"
    /\ Len(polls) = 3
    /\ \A i \in 1..3 : polls[i].ok /\ ~PollMatched(i)
    /\ ReturnedError
    /\ num_attempts = 3
    /\ slept_millis = 600

\* C32 witness of the match: the third poll matched and Ok was returned.
C32_Witness_ThirdPollMatches ==
    /\ WaitDone
    /\ Len(polls) = 3
    /\ PollMatched(3)
    /\ WaitResult = Ok(<<>>)
====
